---- MODULE Spec2Model ----
(***************************************************************************)
(* Query resolution of the chatbot: procesarConsulta (controller),         *)
(* buscarConsultaAvanzada, buscarConsultaSimple, analizarPregunta and       *)
(* registrarFeedback, over a knowledge base of Respuesta and Tema records; *)
(* and the page of the chat (Chat_logic.js) with its conversations.        *)
(*                                                                         *)
(* Texts are TLA+ strings handled character by character; a character is   *)
(* a string of length one.  Scores are exact rationals <<num, den>>.       *)
(***************************************************************************)
EXTENDS Integers, Sequences, FiniteSets, TLC

\* ------------------------------------------------------------------ text

Ch(s, i) == SubSeq(s, i, i)

UpperAZ == "ABCDEFGHIJKLMNOPQRSTUVWXYZ"
LowerAZ == "abcdefghijklmnopqrstuvwxyz"

Chars(alphabet) == {Ch(alphabet, i) : i \in 1..Len(alphabet)}

Tabla(desde, hasta) ==
    [c \in Chars(desde) |-> Ch(hasta, CHOOSE i \in 1..Len(desde) : Ch(desde, i) = c)]

TablaLower == Tabla(UpperAZ, LowerAZ)

TablaStrip == Tabla("áéíóúñü", "aeiounu")

WordChars == Chars(LowerAZ) \cup Chars(UpperAZ) \cup Chars("0123456789") \cup {"_"}

\* String.prototype.toLowerCase on one character
LowerCh(c) == IF c \in DOMAIN TablaLower THEN TablaLower[c] ELSE c

\* normalize('NFD') followed by removal of the combining marks U+0300..U+036F
StripCh(c) == IF c \in DOMAIN TablaStrip THEN TablaStrip[c] ELSE c

\* the regular expression class \w
IsWordCh(c) == c \in WordChars

\* the regular expression class \s
IsSpaceCh(c) == c = " "

\* String.prototype.toLowerCase
RECURSIVE ToLower(_)
ToLower(s) == IF Len(s) = 0 THEN "" ELSE LowerCh(Ch(s, 1)) \o ToLower(Tail(s))

\* normalize('NFD').replace(/[\u0300-\u036f]/g, '')
RECURSIVE StripMarks(_)
StripMarks(s) == IF Len(s) = 0 THEN "" ELSE StripCh(Ch(s, 1)) \o StripMarks(Tail(s))

\* replace(/[^\w\s]/g, '')
RECURSIVE StripNonWord(_)
StripNonWord(s) ==
    IF Len(s) = 0 THEN ""
    ELSE (IF IsWordCh(Ch(s, 1)) \/ IsSpaceCh(Ch(s, 1)) THEN Ch(s, 1) ELSE "")
         \o StripNonWord(Tail(s))

\* String.prototype.includes
Includes(s, sub) ==
    \E i \in 1..(Len(s) - Len(sub) + 1) : SubSeq(s, i, i + Len(sub) - 1) = sub

\* String.prototype.split(/\s+/)
RECURSIVE Split(_)
Split(s) ==
    IF \A i \in 1..Len(s) : ~IsSpaceCh(Ch(s, i)) THEN <<s>>
    ELSE LET i == CHOOSE k \in 1..Len(s) :
                      /\ IsSpaceCh(Ch(s, k))
                      /\ \A m \in 1..(k - 1) : ~IsSpaceCh(Ch(s, m))
             rest == {k \in (i + 1)..Len(s) : ~IsSpaceCh(Ch(s, k))}
             j == IF rest = {} THEN Len(s) + 1
                  ELSE CHOOSE k \in rest : \A m \in rest : k <= m
         IN  <<SubSeq(s, 1, i - 1)>> \o Split(SubSeq(s, j, Len(s)))

Range(seq) == {seq[i] : i \in 1..Len(seq)}

\* Array.prototype.join
RECURSIVE Join(_, _)
Join(seq, sep) ==
    IF seq = <<>> THEN ""
    ELSE IF Len(seq) = 1 THEN seq[1]
    ELSE seq[1] \o sep \o Join(Tail(seq), sep)

\* String.prototype.trim
RECURSIVE Trim(_)
Trim(s) ==
    IF Len(s) = 0 THEN ""
    ELSE IF IsSpaceCh(Ch(s, 1)) THEN Trim(Tail(s))
    ELSE IF IsSpaceCh(Ch(s, Len(s))) THEN Trim(SubSeq(s, 1, Len(s) - 1))
    ELSE s

\* String.prototype.replace(new RegExp(pat, 'gi'), rep) for a pattern of letters
\* and spaces: every non-overlapping occurrence, leftmost first, ignoring case
RECURSIVE ReplaceAllCI(_, _, _)
ReplaceAllCI(s, pat, rep) ==
    IF Len(s) < Len(pat) \/ Len(pat) = 0 THEN s
    ELSE IF ToLower(SubSeq(s, 1, Len(pat))) = ToLower(pat)
         THEN rep \o ReplaceAllCI(SubSeq(s, Len(pat) + 1, Len(s)), pat, rep)
         ELSE Ch(s, 1) \o ReplaceAllCI(Tail(s), pat, rep)

\* ------------------------------------------------------- exact rationals

RECURSIVE GCD(_, _)
GCD(a, b) == IF b = 0 THEN a ELSE GCD(b, a % b)

Rat(n, d) == LET g == IF n = 0 THEN d ELSE GCD(n, d) IN <<n \div g, d \div g>>

RAdd(a, b) == Rat(a[1] * b[2] + b[1] * a[2], a[2] * b[2])

RMul(a, b) == Rat(a[1] * b[1], a[2] * b[2])

RLess(a, b) == a[1] * b[2] < b[1] * a[2]

RLeq(a, b) == a[1] * b[2] <= b[1] * a[2]

Zero == Rat(0, 1)

\* a threshold written in hundredths
Hundredths(h) == Rat(h, 100)

\* ------------------------------------------------------- NLP.js: tables

NULL == "null"

\* JavaScript truthiness of a value that is a string or null
Truthy(v) == v # NULL /\ v # ""

intenciones ==
    << [intencion |-> "informativa",
        frases |-> << "qué es", "cómo afecta", "cuáles son", "describe", "detalla",
                      "significa", "en qué consiste", "cómo varía",
                      "por qué es importante", "cual es la diferencia",
                      "cómo contaminan", "cómo contribuye", "cómo está estructurado",
                      "cómo funcionan", "cómo se mide" >>],
       [intencion |-> "recomendacion",
        frases |-> << "puedo hacer", "qué consejos", "cómo prevenir", "cómo reducir",
                      "cómo evitar", "cómo mejorar", "dame consejos", "me recomiendas",
                      "cómo protegerme", "cómo aprovechar", "cómo elegir",
                      "cómo cuidar", "qué alternativas" >>],
       [intencion |-> "tecnica",
        frases |-> << "cómo funciona", "cómo se mide", "detección", "arquitectura",
                      "tecnología", "estructura técnica", "cómo están conectados",
                      "cómo procesan los datos", "cómo se configuran", "cómo opera",
                      "cómo se comunica", "cómo monitorea", "cómo sincroniza",
                      "cómo ventila", "cómo purifica" >>],
       [intencion |-> "salud",
        frases |-> << "afecta", "enferma", "daña", "provoca", "impacta", "riesgo",
                      "consecuencias", "síntomas", "me hace daño", "a la salud",
                      "cómo afecta la salud", "intoxicación", "problemas respiratorios",
                      "daños a largo plazo", "qué efectos" >>] >>

MalFormulacion ==
    << [mal |-> "que ase", bien |-> "qué hace"],
       [mal |-> "como funsiona", bien |-> "cómo funciona"],
       [mal |-> "me puedes desir", bien |-> "me puedes decir"],
       [mal |-> "que es el smock", bien |-> "qué es el smog"],
       [mal |-> "co mo se usa", bien |-> "cómo se usa"],
       [mal |-> "aire puresa", bien |-> "aire pureza"] >>

subtemasGenericos == {"agradecimientos", "saludos", "respuesta_positiva"}

\* utils/palabras_tema: topic key -> keywords, in declaration order
PalabrasClave ==
    << [clave |-> "aire", lista |-> <<"aire", "ambiente">>],
       [clave |-> "salud", lista |-> <<"salud", "tos">>] >>

\* utils/palabras_tema: subtopic -> synonyms, in declaration order
PalabrasPorSubtema ==
    << [subtema |-> "smog", sinonimos |-> <<"smog", "humo">>],
       [subtema |-> "saludos", sinonimos |-> <<"hola">>],
       [subtema |-> "ozono", sinonimos |-> <<"ozono", "o3", "humo">>] >>

\* weights of the composite score, in tenths
PesoPreguntaClave == 5

PesoDescripcion == 2

PesoRespuesta == 2

PesoEjemplo == 1

\* thresholds, in hundredths
UmbralFuerte == 45

ScoreFuzzy == 42

UmbralHeuristica == 30

UmbralAmbigua == 30

UmbralFueraDeDominio == 15

\* ---------------------------------------------------- NLP.js: utilities

\* the topics and the records the collections of the model are made of
T1 == [id |-> "t1", clave |-> "aire", nombre |-> "Calidad del aire"]

T2 == [id |-> "t2", clave |-> "salud", nombre |-> "Salud"]

CatalogoTemas == <<T1, T2>>

R1 == [id |-> "r1", tema |-> "t1", subtema |-> "smog",
       pregunta_clave |-> "¿Qué es el smog?", respuesta |-> "El smog es humo",
       descripcion |-> "", palabras_clave |-> <<"smog", "humo">>,
       intencion |-> "informativa", ejemplo |-> ""]

R2 == [id |-> "r2", tema |-> "t1", subtema |-> "Smog",
       pregunta_clave |-> "smog y tos", respuesta |-> "El smog afecta",
       descripcion |-> "tos", palabras_clave |-> <<>>,
       intencion |-> "salud", ejemplo |-> "humo"]

R3 == [id |-> "r3", tema |-> "t2", subtema |-> "gas (co)",
       pregunta_clave |-> "co", respuesta |-> "Es un gas",
       descripcion |-> "gas", palabras_clave |-> <<"co">>,
       intencion |-> "tecnica", ejemplo |-> "gas"]

R4 == [id |-> "r4", tema |-> "t2", subtema |-> "pm (",
       pregunta_clave |-> "pm", respuesta |-> "Son particulas",
       descripcion |-> "particulas", palabras_clave |-> <<"pm">>,
       intencion |-> "informativa", ejemplo |-> "pm"]

R5 == [id |-> "r5", tema |-> "t2", subtema |-> "calidad del aire",
       pregunta_clave |-> "ica", respuesta |-> "Indice de calidad",
       descripcion |-> "", palabras_clave |-> <<"ica">>,
       intencion |-> "informativa", ejemplo |-> ""]

R6 == [id |-> "r6", tema |-> "t1", subtema |-> "Saludos",
       pregunta_clave |-> "buenos dias", respuesta |-> "Hola",
       descripcion |-> "saludo", palabras_clave |-> <<"hola">>,
       intencion |-> "informativa", ejemplo |-> "el smog"]

Catalogo == <<R1, R2, R3, R4, R5, R6>>

\* limpiarTexto of NLP.js
limpiarTexto(str) == StripNonWord(StripMarks(ToLower(str)))

RECURSIVE PrimeraMalFormulacion(_, _)
PrimeraMalFormulacion(textoNorm, i) ==
    IF i > Len(MalFormulacion) THEN 0
    ELSE IF Includes(textoNorm, limpiarTexto(MalFormulacion[i].mal)) THEN i
    ELSE PrimeraMalFormulacion(textoNorm, i + 1)

corregirMalFormulacion(texto) ==
    LET i == PrimeraMalFormulacion(limpiarTexto(texto), 1)
    IN  IF i = 0 THEN texto
        ELSE ReplaceAllCI(texto, MalFormulacion[i].mal, MalFormulacion[i].bien)

\* punctuation that compromise drops from the end of a term
RECURSIVE SinPuntuacionFinal(_)
SinPuntuacionFinal(w) ==
    IF Len(w) > 0 /\ Ch(w, Len(w)) \in {"?", "!", ".", ","}
    THEN SinPuntuacionFinal(SubSeq(w, 1, Len(w) - 1))
    ELSE w

NoVacio(w) == w # ""

RECURSIVE TerminosNormalizados(_)
TerminosNormalizados(ws) ==
    IF ws = <<>> THEN <<>>
    ELSE <<SinPuntuacionFinal(Head(ws))>> \o TerminosNormalizados(Tail(ws))

\* nlp(texto).normalize({ punctuation: true, plurals: true }).out('text'):
\* the terms of the text, without their trailing punctuation, one space apart.
\* (No word of the model's vocabulary is a plural that compromise rewrites.)
nlpNormalize(texto) ==
    Join(SelectSeq(TerminosNormalizados(SelectSeq(Split(texto), NoVacio)), NoVacio), " ")

RECURSIVE PrimeraIntencion(_, _)
PrimeraIntencion(texto, i) ==
    IF i > Len(intenciones) THEN "informativa"
    ELSE IF \E k \in 1..Len(intenciones[i].frases) :
                Includes(texto, intenciones[i].frases[k])
         THEN intenciones[i].intencion
    ELSE PrimeraIntencion(texto, i + 1)

detectarIntencion(texto) == PrimeraIntencion(texto, 1)

Inter(a, b) == Cardinality(Range(Split(a)) \cap Range(Split(b)))

Max(a, b) == IF a >= b THEN a ELSE b

\* calcularScore of NLP.js: intersection over union of the two token sets
calcularScoreNLP(a, b) ==
    Rat(Inter(a, b), Max(Cardinality(Range(Split(a)) \cup Range(Split(b))), 1))

Tenths(w) == Rat(w, 10)

\* the composite score of one record in the scoring loop of analizarPregunta
scoreCompuestoNLP(texto, r) ==
    RAdd(RAdd(RMul(calcularScoreNLP(texto, limpiarTexto(r.pregunta_clave)),
                   Tenths(PesoPreguntaClave)),
              RMul(calcularScoreNLP(texto, limpiarTexto(r.descripcion)),
                   Tenths(PesoDescripcion))),
         RAdd(RMul(calcularScoreNLP(texto, limpiarTexto(r.respuesta)),
                   Tenths(PesoRespuesta)),
              RMul(calcularScoreNLP(texto, limpiarTexto(r.ejemplo)),
                   Tenths(PesoEjemplo))))

\* ------------------------------------------------ NLP.js: analizarPregunta

\* textoNormalizado.split(/\s+/).filter(Boolean)
tokensDe(textoNormalizado) == SelectSeq(Split(textoNormalizado), NoVacio)

\* mutant: the update of the best candidate with >= in place of >
RECURSIVE bucleSimilitudUltimo(_, _, _, _)
bucleSimilitudUltimo(texto, respuestas, i, mejor) ==
    IF i > Len(respuestas) THEN mejor
    ELSE LET score == scoreCompuestoNLP(texto, respuestas[i])
         IN  bucleSimilitudUltimo(texto, respuestas, i + 1,
                 IF RLeq(mejor.mejorScore, score)
                 THEN [mejorScore |-> score, mejorCoincidencia |-> i]
                 ELSE mejor)

\* the scoring loop: the best score and the index of its record (0: none);
\* a record replaces the best one only with a strictly greater score
RECURSIVE bucleSimilitud(_, _, _, _)
bucleSimilitud(texto, respuestas, i, mejor) ==
    IF i > Len(respuestas) THEN mejor
    ELSE LET score == scoreCompuestoNLP(texto, respuestas[i])
         IN  bucleSimilitud(texto, respuestas, i + 1,
                 IF RLess(mejor.mejorScore, score)
                 THEN [mejorScore |-> score, mejorCoincidencia |-> i]
                 ELSE mejor)

estadoInicial ==
    [tema |-> NULL, subtema |-> NULL, mejorScore |-> Zero, mejorCoincidencia |-> 0]

etapaSimilitud(texto, respuestas) ==
    LET m == bucleSimilitud(texto, respuestas, 1,
                            [mejorScore |-> Zero, mejorCoincidencia |-> 0])
    IN  [estadoInicial EXCEPT !.mejorScore = m.mejorScore,
                              !.mejorCoincidencia = m.mejorCoincidencia]

\* mutant: the strong match accepted from a score of 0.15
etapaFuerteUmbralBajo(st, respuestas) ==
    IF st.mejorCoincidencia # 0 /\ RLeq(Hundredths(UmbralFueraDeDominio), st.mejorScore)
    THEN [st EXCEPT !.subtema = respuestas[st.mejorCoincidencia].subtema,
                    !.tema = respuestas[st.mejorCoincidencia].tema]
    ELSE st

etapaFuerte(st, respuestas) ==
    IF st.mejorCoincidencia # 0 /\ RLeq(Hundredths(UmbralFuerte), st.mejorScore)
    THEN [st EXCEPT !.subtema = respuestas[st.mejorCoincidencia].subtema,
                    !.tema = respuestas[st.mejorCoincidencia].tema]
    ELSE st

RECURSIVE EsSubsecuencia(_, _)
EsSubsecuencia(w, objetivo) ==
    IF Len(w) = 0 THEN TRUE
    ELSE IF Len(objetivo) = 0 THEN FALSE
    ELSE IF Ch(w, 1) = Ch(objetivo, 1) THEN EsSubsecuencia(Tail(w), Tail(objetivo))
    ELSE EsSubsecuencia(w, Tail(objetivo))

CoincideFuzzy(texto, campo) ==
    /\ tokensDe(texto) # <<>>
    /\ \A k \in 1..Len(tokensDe(texto)) : EsSubsecuencia(tokensDe(texto)[k], ToLower(campo))

\* fuzzysort.go(texto, respuestas, {keys: ['pregunta_clave', 'descripcion'],
\* limit: 1, threshold: -1000}) followed by the test score < -10: the records the
\* library can return (every term of the search occurs, in order, in one of the
\* two keys); which of them it ranks first, and with what score, is the library's
\* choice.  0 stands for no accepted match.
resultadosFuzzy(texto, respuestas) ==
    {0} \cup {i \in 1..Len(respuestas) :
                 \/ CoincideFuzzy(texto, respuestas[i].pregunta_clave)
                 \/ CoincideFuzzy(texto, respuestas[i].descripcion)}

\* mutant: the fuzzy search tried whatever the scoring stage found
intentaFuzzySiempre(st) == TRUE

intentaFuzzy(st) ==
    ~Truthy(st.subtema) /\ RLess(st.mejorScore, Hundredths(UmbralFuerte))

\* mutant: a fuzzy match adopted without setting mejorScore to 0.42
etapaFuzzySinPin(st, respuestas, fz) ==
    IF intentaFuzzy(st) /\ fz # 0
    THEN [st EXCEPT !.subtema = respuestas[fz].subtema,
                    !.tema = respuestas[fz].tema,
                    !.mejorCoincidencia = fz]
    ELSE st

etapaFuzzy(st, respuestas, fz) ==
    IF intentaFuzzy(st) /\ fz # 0
    THEN [st EXCEPT !.subtema = respuestas[fz].subtema,
                    !.tema = respuestas[fz].tema,
                    !.mejorCoincidencia = fz,
                    !.mejorScore = Hundredths(ScoreFuzzy)]
    ELSE st

coincidenciasDe(sinonimos, tokens) ==
    Len(SelectSeq(sinonimos, LAMBDA p : limpiarTexto(p) \in Range(tokens)))

\* the entries of PalabrasPorSubtema with at least one synonym among the tokens
RECURSIVE recogeCoincidencias(_, _)
recogeCoincidencias(tokens, i) ==
    IF i > Len(PalabrasPorSubtema) THEN <<>>
    ELSE LET n == coincidenciasDe(PalabrasPorSubtema[i].sinonimos, tokens)
         IN  (IF n > 0
              THEN <<[subtema |-> PalabrasPorSubtema[i].subtema, coincidencias |-> n]>>
              ELSE <<>>) \o recogeCoincidencias(tokens, i + 1)

\* Array.prototype.sort((a, b) => b.coincidencias - a.coincidencias): stable
RECURSIVE InsertaPorCoincidencias(_, _)
InsertaPorCoincidencias(sorted, e) ==
    IF sorted = <<>> THEN <<e>>
    ELSE IF Head(sorted).coincidencias >= e.coincidencias
         THEN <<Head(sorted)>> \o InsertaPorCoincidencias(Tail(sorted), e)
         ELSE <<e>> \o sorted

RECURSIVE ordenaPorCoincidencias(_)
ordenaPorCoincidencias(seq) ==
    IF seq = <<>> THEN <<>>
    ELSE InsertaPorCoincidencias(ordenaPorCoincidencias(SubSeq(seq, 1, Len(seq) - 1)),
                                 seq[Len(seq)])

mejoresCoincidencias(tokens) == ordenaPorCoincidencias(recogeCoincidencias(tokens, 1))

minCoincidencias == 1

subtemaExiste(respuestas, subtema) ==
    \E i \in 1..Len(respuestas) :
        /\ Truthy(respuestas[i].subtema)
        /\ limpiarTexto(respuestas[i].subtema) = limpiarTexto(subtema)

correHeuristica(st) ==
    ~Truthy(st.subtema) \/ RLess(st.mejorScore, Hundredths(UmbralHeuristica))

\* mutant: the heuristic without its test that a record carries the subtopic
etapaHeuristicaSinExiste(st, tokens, respuestas) ==
    IF correHeuristica(st) /\ mejoresCoincidencias(tokens) # <<>>
    THEN LET mejor == mejoresCoincidencias(tokens)[1]
         IN  IF mejor.coincidencias >= minCoincidencias
             THEN [st EXCEPT !.subtema = mejor.subtema]
             ELSE st
    ELSE st

\* mutant: the heuristic also takes the topic of the first record with the subtopic
etapaHeuristicaConTema(st, tokens, respuestas) ==
    IF correHeuristica(st) /\ mejoresCoincidencias(tokens) # <<>>
    THEN LET mejor == mejoresCoincidencias(tokens)[1]
             hits == {i \in 1..Len(respuestas) :
                         limpiarTexto(respuestas[i].subtema) = limpiarTexto(mejor.subtema)}
         IN  IF subtemaExiste(respuestas, mejor.subtema)
                /\ mejor.coincidencias >= minCoincidencias
             THEN [st EXCEPT !.subtema = mejor.subtema,
                             !.tema = respuestas[CHOOSE i \in hits :
                                                    \A j \in hits : i <= j].tema]
             ELSE st
    ELSE st

etapaHeuristica(st, tokens, respuestas) ==
    IF correHeuristica(st) /\ mejoresCoincidencias(tokens) # <<>>
    THEN LET mejor == mejoresCoincidencias(tokens)[1]
         IN  IF subtemaExiste(respuestas, mejor.subtema)
                /\ mejor.coincidencias >= minCoincidencias
             THEN [st EXCEPT !.subtema = mejor.subtema]
             ELSE st
    ELSE st

temaPorClave(temas, clave) ==
    LET hits == {i \in 1..Len(temas) : limpiarTexto(temas[i].clave) = limpiarTexto(clave)}
    IN  IF hits = {} THEN NULL
        ELSE temas[CHOOSE i \in hits : \A j \in hits : i <= j].id

\* mutant: the loop over PalabrasClave left at the first key with a keyword in the
\* text, whether a Tema of that key exists or not
RECURSIVE temaPorPalabrasPrimerAcierto(_, _, _)
temaPorPalabrasPrimerAcierto(texto, temas, i) ==
    IF i > Len(PalabrasClave) THEN NULL
    ELSE IF \E k \in 1..Len(PalabrasClave[i].lista) :
                   Includes(texto, limpiarTexto(PalabrasClave[i].lista[k]))
         THEN temaPorClave(temas, PalabrasClave[i].clave)
    ELSE temaPorPalabrasPrimerAcierto(texto, temas, i + 1)

\* the loop over PalabrasClave: the first key with a keyword in the text and a
\* Tema of that key decides
RECURSIVE temaPorPalabras(_, _, _)
temaPorPalabras(texto, temas, i) ==
    IF i > Len(PalabrasClave) THEN NULL
    ELSE IF /\ \E k \in 1..Len(PalabrasClave[i].lista) :
                   Includes(texto, limpiarTexto(PalabrasClave[i].lista[k]))
            /\ temaPorClave(temas, PalabrasClave[i].clave) # NULL
         THEN temaPorClave(temas, PalabrasClave[i].clave)
    ELSE temaPorPalabras(texto, temas, i + 1)

etapaTemaPorPalabras(st, texto, temas) ==
    IF ~Truthy(st.tema) THEN [st EXCEPT !.tema = temaPorPalabras(texto, temas, 1)]
    ELSE st

etapaTemaDesdeSubtema(st, respuestas) ==
    IF Truthy(st.subtema) /\ ~Truthy(st.tema)
    THEN LET hits == {i \in 1..Len(respuestas) : respuestas[i].subtema = st.subtema}
         IN  IF hits = {} THEN st
             ELSE [st EXCEPT !.tema =
                       respuestas[CHOOSE i \in hits : \A j \in hits : i <= j].tema]
    ELSE st

\* mutant: the label of the topic tested before the label of the subtopic
razonamientoTemaPrimero(st) ==
    IF RLeq(Hundredths(UmbralFuerte), st.mejorScore)
    THEN "Detectado por similitud textual fuerte"
    ELSE IF Truthy(st.tema) THEN "Tema por keyword"
    ELSE IF Truthy(st.subtema) THEN "Subtema heurístico o fuzzy"
    ELSE "Sin coincidencia clara"

razonamientoDe(st) ==
    IF RLeq(Hundredths(UmbralFuerte), st.mejorScore)
    THEN "Detectado por similitud textual fuerte"
    ELSE IF Truthy(st.subtema) THEN "Subtema heurístico o fuzzy"
    ELSE IF Truthy(st.tema) THEN "Tema por keyword"
    ELSE "Sin coincidencia clara"

\* mutant: without the disjunct of the low score
esConsultaAmbiguaSinScore(st) == ~Truthy(st.tema)

esConsultaAmbiguaDe(st) ==
    ~Truthy(st.tema)
    \/ (RLess(st.mejorScore, Hundredths(UmbralAmbigua)) /\ ~Truthy(st.subtema))

\* mutant: without the disjunct of the generic subtopics
fueraDeDominioSinGenericos(st) ==
    /\ ~Truthy(st.tema)
    /\ ~Truthy(st.subtema)
    /\ RLess(st.mejorScore, Hundredths(UmbralFueraDeDominio))

\* mutant: the first disjunct without its test of the topic
fueraDeDominioSinTema(st) ==
    \/ /\ ~Truthy(st.subtema)
       /\ RLess(st.mejorScore, Hundredths(UmbralFueraDeDominio))
    \/ /\ ToLower(st.subtema) \in subtemasGenericos
       /\ RLess(st.mejorScore, Hundredths(UmbralFueraDeDominio))

fueraDeDominioDe(st) ==
    \/ /\ ~Truthy(st.tema)
       /\ ~Truthy(st.subtema)
       /\ RLess(st.mejorScore, Hundredths(UmbralFueraDeDominio))
    \/ /\ ToLower(st.subtema) \in subtemasGenericos
       /\ RLess(st.mejorScore, Hundredths(UmbralFueraDeDominio))

textoNormalizadoDe(pregunta) ==
    limpiarTexto(nlpNormalize(corregirMalFormulacion(pregunta)))

\* the resolution stages in order, from the scoring loop to the topic inference
estadoFinal(pregunta, respuestas, temas, fz) ==
    LET texto == textoNormalizadoDe(pregunta)
        s1 == etapaFuerte(etapaSimilitud(texto, respuestas), respuestas)
        s2 == etapaFuzzy(s1, respuestas, fz)
        s3 == etapaHeuristica(s2, tokensDe(texto), respuestas)
        s4 == etapaTemaPorPalabras(s3, texto, temas)
    IN  etapaTemaDesdeSubtema(s4, respuestas)

analizarPregunta(pregunta, respuestas, temas, fz) ==
    LET st == estadoFinal(pregunta, respuestas, temas, fz)
    IN  [pregunta |-> pregunta,
         textoNormalizado |-> textoNormalizadoDe(pregunta),
         intencion |-> detectarIntencion(textoNormalizadoDe(pregunta)),
         tema |-> st.tema,
         subtema |-> st.subtema,
         razonamiento |-> razonamientoDe(st),
         score |-> st.mejorScore,
         esConsultaAmbigua |-> esConsultaAmbiguaDe(st),
         fueraDeDominio |-> fueraDeDominioDe(st)]

\* ------------------------------------------------------ Consultas_Simples.js

palabrasIgnoradas ==
    {"yo", "tú", "me", "te", "es", "un", "una", "el", "la", "de", "en", "a", "que",
     "por", "con", "mal", "bien", "muy", "hace", "como", "qué", "quién", "cuando"}

UmbralSimple == 40

LongitudMinimaSimple == 2

limpiarTextoSimple(str) == StripMarks(ToLower(str))

RECURSIVE tokensReferencia(_)
tokensReferencia(referencias) ==
    IF referencias = <<>> THEN {}
    ELSE Range(Split(limpiarTextoSimple(Head(referencias))))
         \cup tokensReferencia(Tail(referencias))

calcularCoincidencia(input, referencias) ==
    LET inputTokens == {p \in Range(Split(limpiarTextoSimple(input))) :
                           p \notin palabrasIgnoradas /\ Len(p) > LongitudMinimaSimple}
    IN  Rat(Cardinality(inputTokens \cap tokensReferencia(referencias)),
            Max(Cardinality(inputTokens), 1))

camposReferencia(r) ==
    SelectSeq(<<r.subtema>> \o r.palabras_clave
                  \o <<r.pregunta_clave, r.descripcion, r.ejemplo>>,
              Truthy)

RECURSIVE bucleSimple(_, _, _, _)
bucleSimple(textoNorm, respuestas, i, mejor) ==
    IF i > Len(respuestas) THEN mejor
    ELSE LET score == calcularCoincidencia(textoNorm, camposReferencia(respuestas[i]))
         IN  bucleSimple(textoNorm, respuestas, i + 1,
                 IF RLess(mejor.mayorScore, score)
                 THEN [mayorScore |-> score, mejorRespuesta |-> i]
                 ELSE mejor)

\* the value buscarConsultaSimple returns once its read has come back
buscarConsultaSimple(textoUsuario, respuestas) ==
    LET m == bucleSimple(limpiarTextoSimple(textoUsuario), respuestas, 1,
                         [mayorScore |-> Zero, mejorRespuesta |-> 0])
    IN  IF RLeq(Hundredths(UmbralSimple), m.mayorScore)
        THEN respuestas[m.mejorRespuesta].respuesta
        ELSE NULL

\* --------------------------------------------------- Consultas_Avanzadas.js

MensajeFueraDeDominio ==
    "Lo siento, esa pregunta no está relacionada con los temas que manejo. ¿Quieres preguntar algo sobre calidad del aire, sensores o salud?"

MensajeSinRespuesta == "No encontré una respuesta clara a tu consulta."

LongitudMinimaRegex == 2

MaxPalabrasRegex == 5

TopRespuestas == 3

\* limpiarTexto of Consultas_Avanzadas.js
limpiarTextoAvanzada(str) == IF str = NULL THEN "" ELSE StripNonWord(StripMarks(ToLower(str)))

\* calcularScore of Consultas_Avanzadas.js: intersection over the query's tokens
calcularScoreAvanzada(a, b) ==
    Rat(Inter(a, b), Max(Cardinality(Range(Split(a))), 1))

scoreCompuestoAvanzada(texto, r) ==
    RAdd(RAdd(RMul(calcularScoreAvanzada(texto, limpiarTextoAvanzada(r.pregunta_clave)),
                   Tenths(PesoPreguntaClave)),
              RMul(calcularScoreAvanzada(texto, limpiarTextoAvanzada(r.descripcion)),
                   Tenths(PesoDescripcion))),
         RAdd(RMul(calcularScoreAvanzada(texto, limpiarTextoAvanzada(r.respuesta)),
                   Tenths(PesoRespuesta)),
              RMul(calcularScoreAvanzada(texto, limpiarTextoAvanzada(r.ejemplo)),
                   Tenths(PesoEjemplo))))

\* new RegExp(`^${subtema}$`, 'i') over letters, digits, spaces, '.', '(' and ')':
\* the constructor throws when the parentheses do not balance
RECURSIVE ParentesisOk(_, _)
ParentesisOk(p, abiertos) ==
    IF Len(p) = 0 THEN abiertos = 0
    ELSE IF Ch(p, 1) = "(" THEN ParentesisOk(Tail(p), abiertos + 1)
    ELSE IF Ch(p, 1) = ")" THEN abiertos > 0 /\ ParentesisOk(Tail(p), abiertos - 1)
    ELSE ParentesisOk(Tail(p), abiertos)

regexValida(patron) == ParentesisOk(patron, 0)

RECURSIVE SinParentesis(_)
SinParentesis(p) ==
    IF Len(p) = 0 THEN ""
    ELSE (IF Ch(p, 1) \in {"(", ")"} THEN "" ELSE Ch(p, 1)) \o SinParentesis(Tail(p))

\* whether ^patron$ with flag i matches valor: a group matches what it holds,
\* '.' any character, every other character itself up to case
coincideSubtema(patron, valor) ==
    LET q == SinParentesis(patron)
    IN  /\ Len(q) = Len(valor)
        /\ \A i \in 1..Len(q) :
               Ch(q, i) = "." \/ LowerCh(Ch(q, i)) = LowerCh(Ch(valor, i))

\* the filters the function builds and leaves unused (lines 56-76), as the
\* fields each one constrains
filtros(analisis) ==
    (IF Truthy(analisis.tema) /\ Truthy(analisis.subtema) /\ Truthy(analisis.intencion)
     THEN <<{"tema", "subtema", "intencion"}>> ELSE <<>>)
    \o (IF Truthy(analisis.tema) /\ Truthy(analisis.subtema)
        THEN <<{"tema", "subtema"}>> ELSE <<>>)
    \o (IF Truthy(analisis.subtema) /\ Truthy(analisis.intencion)
        THEN <<{"subtema", "intencion"}>> ELSE <<>>)
    \o (IF Truthy(analisis.subtema) THEN <<{"subtema"}>> ELSE <<>>)
    \o (IF Truthy(analisis.tema) /\ Truthy(analisis.intencion)
        THEN <<{"tema", "intencion"}>> ELSE <<>>)
    \o (IF Truthy(analisis.tema) THEN <<{"tema"}>> ELSE <<>>)

\* filtroPrincipal: the subtopic alone when there is one, else the topic alone,
\* else the empty filter
filtroPrincipal(analisis) ==
    IF Truthy(analisis.subtema) THEN {"subtema"}
    ELSE IF Truthy(analisis.tema) THEN {"tema"}
    ELSE {}

\* whether one record satisfies a filter on the given fields of the analysis
cumpleFiltro(r, campos, analisis) ==
    /\ "tema" \in campos => r.tema = analisis.tema
    /\ "subtema" \in campos => coincideSubtema(analisis.subtema, r.subtema)
    /\ "intencion" \in campos => r.intencion = analisis.intencion

\* Respuesta.find(filtro).lean(): the matching records in collection order
find(respuestas, campos, analisis) ==
    SelectSeq(respuestas, LAMBDA r : cumpleFiltro(r, campos, analisis))

\* building the regular expressions of lines 60-82 throws for a subtopic that is
\* no valid pattern
construyeFiltrosFalla(analisis) ==
    Truthy(analisis.subtema) /\ ~regexValida(analisis.subtema)

palabrasRegex(textoNormalizado) ==
    LET palabras == SelectSeq(Split(textoNormalizado),
                              LAMBDA w : Len(w) > LongitudMinimaRegex)
    IN  SubSeq(palabras, 1, IF Len(palabras) < MaxPalabrasRegex
                            THEN Len(palabras) ELSE MaxPalabrasRegex)

\* new RegExp(palabras.join('|'), 'i').test(campo); the empty pattern matches
\* every string
regexCoincide(palabras, campo) ==
    IF Join(palabras, "|") = "" THEN TRUE
    ELSE \E k \in 1..Len(palabras) : Includes(ToLower(campo), palabras[k])

cumpleRegex(r, palabras) ==
    \/ regexCoincide(palabras, r.pregunta_clave)
    \/ regexCoincide(palabras, r.respuesta)
    \/ regexCoincide(palabras, r.descripcion)
    \/ regexCoincide(palabras, r.ejemplo)
    \/ \E k \in 1..Len(r.palabras_clave) : regexCoincide(palabras, r.palabras_clave[k])

findRegex(respuestas, textoNormalizado) ==
    SelectSeq(respuestas, LAMBDA r : cumpleRegex(r, palabrasRegex(textoNormalizado)))

conScore(texto, r) == [score |-> scoreCompuestoAvanzada(texto, r)] @@ r

RECURSIVE puntua(_, _)
puntua(texto, respuestas) ==
    IF respuestas = <<>> THEN <<>>
    ELSE <<conScore(texto, Head(respuestas))>> \o puntua(texto, Tail(respuestas))

\* mutant: the comparator a.score - b.score, ascending
RECURSIVE InsertaPorScoreAscendente(_, _)
InsertaPorScoreAscendente(sorted, e) ==
    IF sorted = <<>> THEN <<e>>
    ELSE IF RLeq(Head(sorted).score, e.score)
         THEN <<Head(sorted)>> \o InsertaPorScoreAscendente(Tail(sorted), e)
         ELSE <<e>> \o sorted

\* Array.prototype.sort((a, b) => b.score - a.score): stable, descending
RECURSIVE InsertaPorScore(_, _)
InsertaPorScore(sorted, e) ==
    IF sorted = <<>> THEN <<e>>
    ELSE IF RLeq(e.score, Head(sorted).score)
         THEN <<Head(sorted)>> \o InsertaPorScore(Tail(sorted), e)
         ELSE <<e>> \o sorted

RECURSIVE ordenaPorScore(_)
ordenaPorScore(seq) ==
    IF seq = <<>> THEN <<>>
    ELSE InsertaPorScore(ordenaPorScore(SubSeq(seq, 1, Len(seq) - 1)), seq[Len(seq)])

primeras(seq, n) == SubSeq(seq, 1, IF Len(seq) < n THEN Len(seq) ELSE n)

\* lines 122-145: score the pool, sort it, keep the first three
ranking(texto, respuestas) ==
    primeras(ordenaPorScore(puntua(texto, respuestas)), TopRespuestas)

\* ------------------------------------------ Feedback.js (registrarFeedback)

\* the closing <U+1F614> stands for the emoji of the source
MensajeFeedbackBot == "No encontré una respuesta clara a tu consulta. <U+1F614>"

\* the document ChatFeedback.create is given
documentoFeedback(sessionId, pregunta, analisis) ==
    [sessionId |-> sessionId,
     mensajes |-> <<[emisor |-> "usuario", mensaje |-> pregunta],
                    [emisor |-> "bot", mensaje |-> MensajeFeedbackBot]>>,
     intencionesDetectadas |-> <<analisis.intencion>>,
     temasDetectados |-> IF Truthy(analisis.tema) THEN <<analisis.tema>> ELSE <<>>,
     subtemasDetectados |-> IF Truthy(analisis.subtema) THEN <<analisis.subtema>> ELSE <<>>]

\* ---------------------------------------------------- consultaController.js

InterrogativosIniciales ==
    {"que", "qué", "cuando", "cuándo", "donde", "dónde", "por que", "por qué",
     "como", "cómo", "quien", "quién", "para que", "para qué",
     "cuale", "cuále", "cuales", "cuáles"}

\* \b after the first n characters of s
LimitePalabra(s, n) ==
    IsWordCh(Ch(s, n)) # (n < Len(s) /\ IsWordCh(Ch(s, n + 1)))

RECURSIVE SinEspaciosFinales(_)
SinEspaciosFinales(s) ==
    IF Len(s) > 0 /\ IsSpaceCh(Ch(s, Len(s)))
    THEN SinEspaciosFinales(SubSeq(s, 1, Len(s) - 1))
    ELSE s

esConsultaAvanzada(pregunta) ==
    LET texto == ToLower(Trim(pregunta))
        fin == SinEspaciosFinales(pregunta)
    IN  \/ Len(fin) > 0 /\ Ch(fin, Len(fin)) \in {"?", "¿"}
        \/ \E w \in InterrogativosIniciales :
               /\ Len(texto) >= Len(w)
               /\ SubSeq(texto, 1, Len(w)) = w
               /\ LimitePalabra(texto, Len(w))

MensajeFallback == "No encontré una respuesta clara a tu consulta. <U+1F614>"

SesionAvanzada == "default"

SesionDesconocida == "desconocido"

SinRespuesta == [status |-> 0, error |-> NULL, respuestas |-> <<>>, origen |-> NULL]

respuestaOk(respuestas, origen) ==
    [status |-> 200, error |-> NULL, respuestas |-> respuestas, origen |-> origen]

respuestaError(status, error) ==
    [status |-> status, error |-> error, respuestas |-> <<>>, origen |-> NULL]

ErrorInvalida == respuestaError(400, "Consulta inválida.")

ErrorProceso == respuestaError(500, "Error al procesar la consulta.")

\* ------------------------------------------------------------ the store

MaxRespuestas == 4

MaxTemas == 2

RECURSIVE Invertida(_)
Invertida(seq) == IF seq = <<>> THEN <<>> ELSE Invertida(Tail(seq)) \o <<Head(seq)>>

\* the records of a set of catalogue positions, in catalogue order
RECURSIVE Seleccion(_, _)
Seleccion(posiciones, i) ==
    IF i > Len(Catalogo) THEN <<>>
    ELSE (IF i \in posiciones THEN <<Catalogo[i]>> ELSE <<>>)
         \o Seleccion(posiciones, i + 1)

\* the collections of the model: at most MaxRespuestas records of the catalogue,
\* stored in catalogue order or in the reverse order
Colecciones ==
    LET elegidos == {S \in SUBSET (1..Len(Catalogo)) : Cardinality(S) <= MaxRespuestas}
    IN  {Seleccion(S, 1) : S \in elegidos} \cup {Invertida(Seleccion(S, 1)) : S \in elegidos}

\* the collections of topics of the model: at most MaxTemas topics of the catalogue
ColeccionesTemas ==
    {SelectSeq(CatalogoTemas, LAMBDA t : t \in S) :
        S \in {S \in SUBSET Range(CatalogoTemas) : Cardinality(S) <= MaxTemas}}

Preguntas ==
    {"", " ", "?", "¿Qué es el smog?", "¿smog?", "¿co?", "¿pm?", "hola",
     "que es el aire", "¿aire?", "¿clima?", "el clima", "¿hola humo?",
     "¿hola clima?", "¿humo y tos?", "¿y tos?", "¿aire y tos?"}

\* the texts also sent without a session: those that are not advanced queries, since
\* the controller reads the session only for the feedback of its fallback
PreguntasSinSesion == {" ", "hola", "el clima"}

\* the request bodies of the model
Peticiones ==
    [tipo : {"string"}, pregunta : Preguntas, sessionId : {"s1"}]
    \cup [tipo : {"string"}, pregunta : PreguntasSinSesion, sessionId : {NULL}]
    \cup [tipo : {"number", "undefined"}, pregunta : {NULL}, sessionId : {NULL, "s1"}]

\* the value of analisis before analizarPregunta has returned
SinAnalisis ==
    [pregunta |-> NULL, textoNormalizado |-> NULL, intencion |-> NULL, tema |-> NULL,
     subtema |-> NULL, razonamiento |-> NULL, score |-> Zero,
     esConsultaAmbigua |-> FALSE, fueraDeDominio |-> FALSE]

\* -------------------------------------------------------------- the state

\* ------------------------------------------ public/js/Chat_logic.js: data

\* conversations the page may create (crearNuevaConversacion)
MaxConversaciones == 2

\* messages the user may send (enviarMensaje)
MaxEnvios == 1

\* 'chat-' + Date.now() at the successive creations, taken at distinct instants
IdsNuevos == <<"chat-1", "chat-2", "chat-3", "chat-4">>

\* the ids: "chat-0" is a conversation of an earlier visit of the page
IdsChat == {"chat-0"} \cup {IdsNuevos[i] : i \in 1..Len(IdsNuevos)}

Saludo == "Hola, soy GuardBot. ¿En qué puedo ayudarte?"

\* conversaciones[id] is undefined (tipo "ausente"), the object {nombre,
\* mensajesCargados} that cargarHistorialConversaciones stores first (tipo
\* "objeto"), or an array of messages with a nombre property (timestamps are
\* left out)
Lista(mensajes, nombre) == [tipo |-> "lista", mensajes |-> mensajes, nombre |-> nombre]

\* the map of data.mensajes to local messages
mensajesLocales(mensajes) ==
    [i \in 1..Len(mensajes) |->
        [rol |-> IF mensajes[i].emisor = "usuario" THEN "user" ELSE "bot",
         texto |-> mensajes[i].contenido]]

\* the first part of crearNuevaConversacion, up to its await of the POST, which
\* the server handles when it is sent
crearNuevaConversacion(c) ==
    LET nuevoId == IdsNuevos[c.creadas + 1]
    IN  [c EXCEPT !.conversaciones[nuevoId] =
                      Lista(<<[rol |-> "bot", texto |-> Saludo]>>, NULL),
                  !.conversacionActual = nuevoId,
                  !.servidor[nuevoId] =
                      [existe |-> TRUE, nombre |-> "Chat sin título",
                       mensajes |-> <<[emisor |-> "bot", contenido |-> Saludo]>>],
                  !.creadas = @ + 1]

\* guardarMensajeEnConversacion and the route POST /api/conversacion/mensaje:
\* updateOne pushes the message to the document of conversacionActual, if any
guardarMensajeEnConversacion(c, emisor, contenido) ==
    IF c.conversacionActual = NULL THEN c
    ELSE [c EXCEPT !.servidor[c.conversacionActual] =
                       IF @.existe
                       THEN [@ EXCEPT !.mensajes =
                                Append(@, [emisor |-> emisor, contenido |-> contenido])]
                       ELSE @]

\* enviarMensaje is not running
EnvReposo ==
    [pc |-> "reposo", msg |-> NULL, nueva |-> NULL, consulta |-> NULL,
     usuarioEn |-> NULL, usuarioGuardadoEn |-> NULL,
     botEn |-> NULL, botGuardadoEn |-> NULL, error |-> FALSE]

AbrReposo == [pc |-> "reposo", restaurar |-> NULL, pendientes |-> {}, nueva |-> NULL]

\* enviarMensaje lines 246-293: the user's message is appended and saved under
\* conversacionActual (a TypeError when it names no array ends the handler); then
\* the name is patched, or obtenerRespuestaReal posts the question with the
\* conversacionActual of that moment and its response is awaited
envCuerpo(c) ==
    LET id == c.conversacionActual
        error == [c EXCEPT !.env.pc = "reposo", !.env.error = TRUE]
    IN  IF id = NULL THEN error
        ELSE IF c.conversaciones[id].tipo # "lista" THEN error
        ELSE LET c1 == [c EXCEPT !.conversaciones[id].mensajes =
                                     Append(@, [rol |-> "user", texto |-> c.env.msg]),
                                 !.env.usuarioEn = id]
                 c2 == [guardarMensajeEnConversacion(c1, "usuario", c.env.msg)
                            EXCEPT !.env.usuarioGuardadoEn = id]
                 tieneNombre == Truthy(c2.conversaciones[id].nombre)
                 yaHayUsuario ==
                     Len(SelectSeq(c2.conversaciones[id].mensajes,
                                   LAMBDA m : m.rol = "user")) = 1
             IN  IF ~tieneNombre /\ yaHayUsuario
                 THEN [c2 EXCEPT !.env.pc = "nombrando",
                                 !.servidor[id].nombre = IF c2.servidor[id].existe
                                                         THEN Trim(c.env.msg) ELSE @]
                 ELSE [c2 EXCEPT !.env.pc = "esperando", !.env.consulta = id]

\* the states of the page and of the collection of Conversacion when the script
\* is loaded: nothing stored, or one conversation of an earlier visit
ChatsIniciales ==
    {[conversaciones |-> [id \in IdsChat |-> [tipo |-> "ausente", mensajes |-> <<>>, nombre |-> NULL]],
      conversacionActual |-> enUso,
      servidor |-> [id \in IdsChat |->
                       IF id = "chat-0" THEN guardada
                       ELSE [existe |-> FALSE, nombre |-> NULL, mensajes |-> <<>>]],
      creadas |-> 0, envios |-> 0, feedbacks |-> <<>>,
      env |-> EnvReposo, cam |-> [pc |-> "reposo", id |-> NULL], abr |-> AbrReposo] :
        enUso \in {NULL, "chat-0"},
        guardada \in
            {[existe |-> FALSE, nombre |-> NULL, mensajes |-> <<>>],
             [existe |-> TRUE, nombre |-> "Chat sin título",
              mensajes |-> <<[emisor |-> "bot", contenido |-> Saludo]>>],
             [existe |-> TRUE, nombre |-> "chat gpt",
              mensajes |-> <<[emisor |-> "bot", contenido |-> Saludo],
                             [emisor |-> "usuario", contenido |-> "chat gpt"],
                             [emisor |-> "bot", contenido |-> "El smog es humo"]>>],
             [existe |-> TRUE, nombre |-> "hola",
              mensajes |-> <<[emisor |-> "bot", contenido |-> Saludo],
                             [emisor |-> "usuario", contenido |-> "hola"],
                             [emisor |-> "bot", contenido |-> "Ocurrió un error al consultar la base de datos."]>>]}}

\* the page of a browser that never opens the chat
SinChat ==
    CHOOSE c \in ChatsIniciales :
        c.conversacionActual = NULL /\ ~c.servidor["chat-0"].existe

VARIABLES
    kb,          \* the respuestas collection
    temas,       \* the temas collection
    req,         \* the body of the request: tipo, pregunta, sessionId
    pc,          \* the await the request is suspended at
    llamador,    \* who awaits analizarPregunta: "avanzada" or "controlador"
    fuzzy,       \* the match fuzzysort returned to the analysis (0: none)
    analisis,    \* the result of analizarPregunta, SinAnalisis before it
    respuestas,  \* the variable respuestas of buscarConsultaAvanzada
    simple,      \* the result of buscarConsultaSimple, NULL before it
    res,         \* the response sent
    feedback,    \* the feedback collection
    lecturas,    \* the reads of the store made for the request, in order
    emitidos,    \* the calls of registrarFeedback made for the request, in order
    otra,        \* the locals of a second request, suspended at one of its awaits
    chat         \* the page of the chat: its conversations, its handlers, the server's copy

vars == <<kb, temas, req, pc, llamador, fuzzy, analisis, respuestas, simple, res,
          feedback, lecturas, emitidos, otra, chat>>

\* no second request
SinOtra == [pc |-> "ninguna"]

Init ==
    /\ kb \in Colecciones
    /\ temas \in ColeccionesTemas
    /\ req \in Peticiones
    /\ pc = "inicio"
    /\ llamador = NULL
    /\ fuzzy = 0
    /\ analisis = SinAnalisis
    /\ respuestas = <<>>
    /\ simple = NULL
    /\ res = SinRespuesta
    /\ feedback = <<>>
    /\ lecturas = <<>>
    /\ emitidos = <<>>
    /\ otra = SinOtra
    /\ chat = SinChat

\* ------------------------------------------------------------ the steps

lee(op, ok) == lecturas' = Append(lecturas, [op |-> op, ok |-> ok])

\* mutant: a failed read is caught and taken for a read that came back
lecturaTragada(ok) == FALSE

\* a read that fails rejects the awaited promise; nothing between the read and
\* procesarConsulta catches it
lecturaPropaga(ok) == ~ok

\* mutant: registrarFeedback without its try/catch
feedbackSinCatch(ok) == ~ok

\* registrarFeedback catches whatever ChatFeedback.create throws (lines 21-38)
feedbackPropaga(ok) == FALSE

\* the catch of procesarConsulta (lines 57-60)
falla ==
    /\ res' = ErrorProceso
    /\ pc' = "fin"

registrarFeedback(sessionId, ok) ==
    /\ emitidos' = Append(emitidos, [sessionId |-> sessionId,
                                     pregunta |-> req.pregunta, ok |-> ok])
    /\ feedback' = IF ok
                   THEN Append(feedback,
                               documentoFeedback(sessionId, req.pregunta, analisis))
                   ELSE feedback

\* procesarConsulta lines 31-35: what the controller does with the list that
\* buscarConsultaAvanzada returned
trasAvanzada(lista) ==
    IF Len(lista) > 0
    THEN /\ res' = respuestaOk(lista, "avanzada")
         /\ pc' = "fin"
    ELSE /\ res' = res
         /\ pc' = "ctl_simple"

\* mutant: the guard of lines 23-25 with its type test only
RecibirSinVacio ==
    /\ pc = "inicio"
    /\ IF req.tipo # "string"
       THEN /\ res' = ErrorInvalida
            /\ pc' = "fin"
            /\ llamador' = llamador
       ELSE IF esConsultaAvanzada(req.pregunta)
       THEN /\ pc' = "anl_respuestas"
            /\ llamador' = "avanzada"
            /\ res' = res
       ELSE /\ pc' = "ctl_simple"
            /\ llamador' = llamador
            /\ res' = res
    /\ UNCHANGED <<chat, otra, kb, temas, req, fuzzy, analisis, respuestas, simple, feedback,
                   lecturas, emitidos>>

\* procesarConsulta up to its first await (lines 20-37)
Recibir ==
    /\ pc = "inicio"
    /\ IF req.tipo # "string" \/ req.pregunta = ""
       THEN /\ res' = ErrorInvalida
            /\ pc' = "fin"
            /\ llamador' = llamador
       ELSE IF esConsultaAvanzada(req.pregunta)
       THEN /\ pc' = "anl_respuestas"
            /\ llamador' = "avanzada"
            /\ res' = res
       ELSE /\ pc' = "ctl_simple"
            /\ llamador' = llamador
            /\ res' = res
    /\ UNCHANGED <<chat, otra, kb, temas, req, fuzzy, analisis, respuestas, simple, feedback,
                   lecturas, emitidos>>

\* analizarPregunta: await Respuesta.find({}).lean() (line 333)
AnlFindRespuestas ==
    /\ pc = "anl_respuestas"
    /\ \E ok \in BOOLEAN :
          /\ lee("analizar.respuestas", ok)
          /\ IF lecturaPropaga(ok) THEN falla
             ELSE /\ pc' = "anl_temas"
                  /\ res' = res
    /\ UNCHANGED <<chat, otra, kb, temas, req, llamador, fuzzy, analisis, respuestas, simple,
                   feedback, emitidos>>

fuzzyPosibles ==
    IF intentaFuzzy(etapaFuerte(etapaSimilitud(textoNormalizadoDe(req.pregunta), kb), kb))
    THEN resultadosFuzzy(textoNormalizadoDe(req.pregunta), kb)
    ELSE {0}

\* mutant: buscarConsultaAvanzada without the fueraDeDominio return of lines 48-54
trasAnalisisSinCorte(a) ==
    IF llamador = "controlador" THEN pc' = "ctl_feedback" /\ res' = res
    ELSE IF construyeFiltrosFalla(a) THEN falla
    ELSE pc' = "adv_principal" /\ res' = res

\* where the caller of analizarPregunta goes with its result, up to its next await
trasAnalisis(a) ==
    IF llamador = "controlador" THEN pc' = "ctl_feedback" /\ res' = res
    ELSE IF a.fueraDeDominio THEN pc' = "adv_feedback_fuera" /\ res' = res
    ELSE IF construyeFiltrosFalla(a) THEN falla
    ELSE pc' = "adv_principal" /\ res' = res

\* analizarPregunta: await Tema.find({}).lean() (line 334) and the rest of the
\* analysis, which has no further await
AnlFindTemas ==
    /\ pc = "anl_temas"
    /\ \E ok \in BOOLEAN :
          /\ lee("analizar.temas", ok)
          /\ IF lecturaPropaga(ok)
             THEN /\ falla
                  /\ UNCHANGED <<fuzzy, analisis>>
             ELSE \E fz \in fuzzyPosibles :
                     /\ fuzzy' = fz
                     /\ analisis' = analizarPregunta(req.pregunta, kb, temas, fz)
                     /\ trasAnalisis(analisis')
    /\ UNCHANGED <<chat, otra, kb, temas, req, llamador, respuestas, simple, feedback, emitidos>>

\* buscarConsultaAvanzada lines 48-54
AdvFeedbackFuera ==
    /\ pc = "adv_feedback_fuera"
    /\ \E ok \in BOOLEAN :
          /\ registrarFeedback(SesionAvanzada, ok)
          /\ IF feedbackPropaga(ok) THEN falla
             ELSE trasAvanzada(<<[respuesta |-> MensajeFueraDeDominio,
                                  origen |-> "feedback_guardado"]>>)
    /\ UNCHANGED <<chat, otra, kb, temas, req, llamador, fuzzy, analisis, respuestas, simple,
                   lecturas>>

\* mutant: an empty filtered pool goes to the simple match, skipping the regex recall
AdvPrincipalSinRegex ==
    /\ pc = "adv_principal"
    /\ \E ok \in BOOLEAN :
          /\ lee("principal", ok)
          /\ IF lecturaPropaga(ok)
             THEN /\ falla
                  /\ respuestas' = respuestas
             ELSE /\ respuestas' = find(kb, filtroPrincipal(analisis), analisis)
                  /\ IF respuestas' # <<>>
                     THEN trasAvanzada(ranking(analisis.textoNormalizado, respuestas'))
                     ELSE pc' = "adv_simple" /\ res' = res
    /\ UNCHANGED <<chat, otra, kb, temas, req, llamador, fuzzy, analisis, simple, feedback,
                   emitidos>>

\* buscarConsultaAvanzada lines 78-89 and, with a pool, 122-145
AdvPrincipal ==
    /\ pc = "adv_principal"
    /\ \E ok \in BOOLEAN :
          /\ lee("principal", ok)
          /\ IF lecturaPropaga(ok)
             THEN /\ falla
                  /\ respuestas' = respuestas
             ELSE /\ respuestas' = find(kb, filtroPrincipal(analisis), analisis)
                  /\ IF respuestas' # <<>>
                     THEN trasAvanzada(ranking(analisis.textoNormalizado, respuestas'))
                     ELSE pc' = "adv_regex" /\ res' = res
    /\ UNCHANGED <<chat, otra, kb, temas, req, llamador, fuzzy, analisis, simple, feedback,
                   emitidos>>

\* buscarConsultaAvanzada lines 89-105 and, with a pool, 122-145
AdvRegex ==
    /\ pc = "adv_regex"
    /\ \E ok \in BOOLEAN :
          /\ lee("regex", ok)
          /\ IF lecturaPropaga(ok)
             THEN /\ falla
                  /\ respuestas' = respuestas
             ELSE /\ respuestas' = findRegex(kb, analisis.textoNormalizado)
                  /\ IF respuestas' # <<>>
                     THEN trasAvanzada(ranking(analisis.textoNormalizado, respuestas'))
                     ELSE pc' = "adv_simple" /\ res' = res
    /\ UNCHANGED <<chat, otra, kb, temas, req, llamador, fuzzy, analisis, simple, feedback,
                   emitidos>>

\* buscarConsultaAvanzada lines 105-112
AdvSimple ==
    /\ pc = "adv_simple"
    /\ \E ok \in BOOLEAN :
          /\ lee("simple", ok)
          /\ IF lecturaPropaga(ok)
             THEN /\ falla
                  /\ simple' = simple
             ELSE /\ simple' = buscarConsultaSimple(req.pregunta, kb)
                  /\ IF Truthy(simple')
                     THEN trasAvanzada(<<[respuesta |-> simple',
                                          fuente |-> "consulta_simple"]>>)
                     ELSE pc' = "adv_feedback_sin" /\ res' = res
    /\ UNCHANGED <<chat, otra, kb, temas, req, llamador, fuzzy, analisis, respuestas, feedback,
                   emitidos>>

\* mutant: the no-clear-answer return without the call of registrarFeedback
AdvFeedbackSinRegistro ==
    /\ pc = "adv_feedback_sin"
    /\ trasAvanzada(<<[respuesta |-> MensajeSinRespuesta,
                       origen |-> "feedback_guardado"]>>)
    /\ UNCHANGED <<chat, otra, kb, temas, req, llamador, fuzzy, analisis, respuestas, simple,
                   lecturas, feedback, emitidos>>

\* mutant: buscarConsultaAvanzada returning the empty list when nothing was found
AdvFeedbackSinLista ==
    /\ pc = "adv_feedback_sin"
    /\ \E ok \in BOOLEAN :
          /\ registrarFeedback(SesionAvanzada, ok)
          /\ IF feedbackPropaga(ok) THEN falla
             ELSE trasAvanzada(<<>>)
    /\ UNCHANGED <<chat, otra, kb, temas, req, llamador, fuzzy, analisis, respuestas, simple,
                   lecturas>>

\* buscarConsultaAvanzada lines 114-119
AdvFeedbackSin ==
    /\ pc = "adv_feedback_sin"
    /\ \E ok \in BOOLEAN :
          /\ registrarFeedback(SesionAvanzada, ok)
          /\ IF feedbackPropaga(ok) THEN falla
             ELSE trasAvanzada(<<[respuesta |-> MensajeSinRespuesta,
                                  origen |-> "feedback_guardado"]>>)
    /\ UNCHANGED <<chat, otra, kb, temas, req, llamador, fuzzy, analisis, respuestas, simple,
                   lecturas>>

\* procesarConsulta lines 37-45
CtlSimple ==
    /\ pc = "ctl_simple"
    /\ \E ok \in BOOLEAN :
          /\ lee("simple", ok)
          /\ IF lecturaPropaga(ok)
             THEN /\ falla
                  /\ UNCHANGED <<simple, llamador>>
             ELSE /\ simple' = buscarConsultaSimple(req.pregunta, kb)
                  /\ IF Truthy(simple')
                     THEN /\ res' = respuestaOk(<<[respuesta |-> simple']>>, "simple")
                          /\ pc' = "fin"
                          /\ llamador' = llamador
                     ELSE /\ pc' = "anl_respuestas"
                          /\ llamador' = "controlador"
                          /\ res' = res
    /\ UNCHANGED <<chat, otra, kb, temas, req, fuzzy, analisis, respuestas, feedback, emitidos>>

\* mutant: the fallback of the controller sent without the call of registrarFeedback
CtlFeedbackSinRegistro ==
    /\ pc = "ctl_feedback"
    /\ res' = respuestaOk(<<[respuesta |-> MensajeFallback]>>, "fallback")
    /\ pc' = "fin"
    /\ UNCHANGED <<chat, otra, kb, temas, req, llamador, fuzzy, analisis, respuestas, simple,
                   lecturas, feedback, emitidos>>

\* procesarConsulta lines 46-55
CtlFeedback ==
    /\ pc = "ctl_feedback"
    /\ \E ok \in BOOLEAN :
          /\ registrarFeedback(IF Truthy(req.sessionId) THEN req.sessionId
                               ELSE SesionDesconocida, ok)
          /\ IF feedbackPropaga(ok) THEN falla
             ELSE /\ res' = respuestaOk(<<[respuesta |-> MensajeFallback]>>, "fallback")
                  /\ pc' = "fin"
    /\ UNCHANGED <<chat, otra, kb, temas, req, llamador, fuzzy, analisis, respuestas, simple,
                   lecturas>>

Next ==
    \/ Recibir
    \/ AnlFindRespuestas
    \/ AnlFindTemas
    \/ AdvFeedbackFuera
    \/ AdvPrincipal
    \/ AdvRegex
    \/ AdvSimple
    \/ AdvFeedbackSin
    \/ CtlSimple
    \/ CtlFeedback

Spec == Init /\ [][Next]_vars

\* ------------------------------------------------- two requests at a time

\* the locals of the request that is running
actual ==
    [req |-> req, pc |-> pc, llamador |-> llamador, fuzzy |-> fuzzy,
     analisis |-> analisis, respuestas |-> respuestas, simple |-> simple,
     res |-> res, lecturas |-> lecturas, emitidos |-> emitidos]

\* the stores and the requests of the runs with two requests
ColeccionesDos == {<<R1>>, <<R3>>, <<R1, R3>>}

PreguntasDos == {"¿smog?", "¿aire?", "¿clima?", "el clima"}

InitDos ==
    /\ kb \in ColeccionesDos
    /\ temas = <<T1>>
    /\ req \in [tipo : {"string"}, pregunta : PreguntasDos, sessionId : {"s1"}]
    /\ pc = "inicio"
    /\ llamador = NULL
    /\ fuzzy = 0
    /\ analisis = SinAnalisis
    /\ respuestas = <<>>
    /\ simple = NULL
    /\ res = SinRespuesta
    /\ feedback = <<>>
    /\ lecturas = <<>>
    /\ emitidos = <<>>
    /\ \E otroReq \in [tipo : {"string"}, pregunta : PreguntasDos, sessionId : {"s2"}] :
          otra = [req |-> otroReq, pc |-> "inicio", llamador |-> NULL, fuzzy |-> 0,
                  analisis |-> SinAnalisis, respuestas |-> <<>>, simple |-> NULL,
                  res |-> SinRespuesta, lecturas |-> <<>>, emitidos |-> <<>>]
    /\ chat = SinChat

\* mutant: the result of analizarPregunta kept in a variable of the module, which
\* the requests share, in place of the const of buscarConsultaAvanzada
CambiarCompartiendoAnalisis ==
    /\ otra # SinOtra
    /\ req' = otra.req
    /\ pc' = otra.pc
    /\ llamador' = otra.llamador
    /\ fuzzy' = otra.fuzzy
    /\ analisis' = analisis
    /\ respuestas' = otra.respuestas
    /\ simple' = otra.simple
    /\ res' = otra.res
    /\ lecturas' = otra.lecturas
    /\ emitidos' = otra.emitidos
    /\ otra' = actual
    /\ UNCHANGED <<chat, kb, temas, feedback>>

\* the event loop at an await: the running request is suspended with its locals
\* and the other request goes on with its own; the store is what they share
Cambiar ==
    /\ otra # SinOtra
    /\ req' = otra.req
    /\ pc' = otra.pc
    /\ llamador' = otra.llamador
    /\ fuzzy' = otra.fuzzy
    /\ analisis' = otra.analisis
    /\ respuestas' = otra.respuestas
    /\ simple' = otra.simple
    /\ res' = otra.res
    /\ lecturas' = otra.lecturas
    /\ emitidos' = otra.emitidos
    /\ otra' = actual
    /\ UNCHANGED <<chat, kb, temas, feedback>>

NextDos ==
    \/ Next
    \/ Cambiar

SpecDos == InitDos /\ [][NextDos]_vars

\* ---------------------------------------- public/js/Chat_logic.js: the page

InitChat ==
    /\ chat \in ChatsIniciales
    /\ kb = <<>>
    /\ temas = <<>>
    /\ req = [tipo |-> "string", pregunta |-> "", sessionId |-> NULL]
    /\ pc = "inicio"
    /\ llamador = NULL
    /\ fuzzy = 0
    /\ analisis = SinAnalisis
    /\ respuestas = <<>>
    /\ simple = NULL
    /\ res = SinRespuesta
    /\ feedback = <<>>
    /\ lecturas = <<>>
    /\ emitidos = <<>>
    /\ otra = SinOtra

\* enviarMensaje lines 231-245: with no current conversation it creates one and
\* awaits the POST; otherwise it goes on to append the user's message
EnvInicio ==
    /\ chat.env.pc = "reposo"
    /\ chat.envios < MaxEnvios
    /\ LET c == [chat EXCEPT !.env = [EnvReposo EXCEPT
                                          !.msg = <<"¿smog?", "chat gpt", "hola">>[chat.envios + 1]],
                             !.envios = @ + 1]
           id == c.conversacionActual
       IN  IF id = NULL \/ c.conversaciones[id].tipo = "ausente"
           THEN /\ c.creadas < MaxConversaciones
                /\ chat' = [crearNuevaConversacion(c) EXCEPT
                                !.env.pc = "creando",
                                !.env.nueva = IdsNuevos[c.creadas + 1]]
           ELSE chat' = envCuerpo(c)
    /\ UNCHANGED <<otra, kb, temas, req, pc, llamador, fuzzy, analisis, respuestas, simple, res,
                   feedback, lecturas, emitidos>>

\* enviarMensaje lines 238-241, after the await of crearNuevaConversacion
EnvTrasCrear ==
    /\ chat.env.pc = "creando"
    /\ chat' = envCuerpo([chat EXCEPT !.conversacionActual = chat.env.nueva])
    /\ UNCHANGED <<otra, kb, temas, req, pc, llamador, fuzzy, analisis, respuestas, simple, res,
                   feedback, lecturas, emitidos>>

\* enviarMensaje lines 284-293, after the await of the PATCH: the name is set on
\* conversaciones[conversacionActual] (a TypeError is caught) and
\* obtenerRespuestaReal posts the question with that conversacionActual
EnvTrasNombre ==
    /\ chat.env.pc = "nombrando"
    /\ LET id == chat.conversacionActual
           c1 == IF id = NULL THEN chat
                 ELSE IF chat.conversaciones[id].tipo = "ausente" THEN chat
                 ELSE [chat EXCEPT !.conversaciones[id].nombre = Trim(chat.env.msg)]
       IN  chat' = [c1 EXCEPT !.env.pc = "esperando", !.env.consulta = id]
    /\ UNCHANGED <<otra, kb, temas, req, pc, llamador, fuzzy, analisis, respuestas, simple, res,
                   feedback, lecturas, emitidos>>

\* enviarMensaje lines 295-320, after the await of obtenerRespuestaReal, which
\* returns the first answer, its own apology or its message of error: the reply
\* is appended and saved under the conversacionActual of that moment (a TypeError
\* when it names no array), and a feedback is posted for a reply without success
EnvTrasRespuesta ==
    /\ chat.env.pc = "esperando"
    /\ \E r \in {"El smog es humo",
                 "Lo siento, no encontré una respuesta precisa a tu consulta.",
                 "Ocurrió un error al consultar la base de datos."} :
          LET id == chat.conversacionActual
              sinExito == \/ Includes(ToLower(r), "no encontré una respuesta")
                          \/ Includes(ToLower(r), "no tengo una respuesta")
                          \/ Includes(ToLower(r), "ocurrió un error")
          IN  IF id = NULL \/ chat.conversaciones[id].tipo # "lista"
              THEN chat' = [chat EXCEPT !.env.pc = "reposo", !.env.error = TRUE]
              ELSE LET c1 == [chat EXCEPT !.conversaciones[id].mensajes =
                                              Append(@, [rol |-> "bot", texto |-> r]),
                                          !.env.botEn = id]
                       c2 == [guardarMensajeEnConversacion(c1, "bot", r)
                                  EXCEPT !.env.botGuardadoEn = id, !.env.pc = "reposo"]
                   IN  chat' = IF sinExito
                               THEN [c2 EXCEPT !.feedbacks =
                                         Append(@, [sessionId |-> id, contenido |-> r])]
                               ELSE c2
    /\ UNCHANGED <<otra, kb, temas, req, pc, llamador, fuzzy, analisis, respuestas, simple, res,
                   feedback, lecturas, emitidos>>

\* cambiarConversacion lines 126-138: a click on "new" or on the button of a
\* conversation of the list, up to the await of the POST or of the GET
CamInicio ==
    /\ chat.cam.pc = "reposo"
    /\ \/ /\ chat.creadas < MaxConversaciones
          /\ chat' = [crearNuevaConversacion(chat) EXCEPT
                          !.cam = [pc |-> "creando", id |-> IdsNuevos[chat.creadas + 1]]]
       \/ \E id \in IdsChat :
             /\ chat.conversaciones[id].tipo # "ausente"
             /\ chat' = [chat EXCEPT !.cam = [pc |-> "leyendo", id |-> id]]
    /\ UNCHANGED <<otra, kb, temas, req, pc, llamador, fuzzy, analisis, respuestas, simple, res,
                   feedback, lecturas, emitidos>>

\* cambiarConversacion lines 129-134, after the await of crearNuevaConversacion
CamTrasCrear ==
    /\ chat.cam.pc = "creando"
    /\ chat' = [chat EXCEPT !.conversacionActual = chat.cam.id, !.cam = [pc |-> "reposo", id |-> NULL]]
    /\ UNCHANGED <<otra, kb, temas, req, pc, llamador, fuzzy, analisis, respuestas, simple, res,
                   feedback, lecturas, emitidos>>

\* cambiarConversacion lines 138-158, after the await of the GET: 404 throws and
\* is caught; otherwise the conversation is replaced, with the name of the
\* document unless it starts with 'chat', and becomes the current one
CamTrasLeer ==
    /\ chat.cam.pc = "leyendo"
    /\ LET id == chat.cam.id
           doc == chat.servidor[id]
           personalizado ==
               /\ Truthy(doc.nombre)
               /\ ~(Len(doc.nombre) >= 4 /\ SubSeq(ToLower(doc.nombre), 1, 4) = "chat")
       IN  IF ~doc.existe
           THEN chat' = [chat EXCEPT !.cam = [pc |-> "reposo", id |-> NULL]]
           ELSE chat' = [chat EXCEPT
                             !.conversaciones[id] =
                                 Lista(mensajesLocales(doc.mensajes),
                                       IF personalizado THEN Trim(doc.nombre) ELSE NULL),
                             !.conversacionActual = id,
                             !.cam = [pc |-> "reposo", id |-> NULL]]
    /\ UNCHANGED <<otra, kb, temas, req, pc, llamador, fuzzy, analisis, respuestas, simple, res,
                   feedback, lecturas, emitidos>>

\* abrirChat lines 43-47 and cargarHistorialConversaciones up to its first await
AbrInicio ==
    /\ chat.abr.pc = "reposo"
    /\ chat' = [chat EXCEPT !.abr.pc = "lista"]
    /\ UNCHANGED <<otra, kb, temas, req, pc, llamador, fuzzy, analisis, respuestas, simple, res,
                   feedback, lecturas, emitidos>>

\* cargarHistorialConversaciones lines 457-467 once every detail has arrived, and
\* abrirChat lines 49-60: the conversation in use is restored if it has a user's
\* message; with no current conversation a new one is created
abrTrasHistorial(c) ==
    LET r == c.abr.restaurar
        c1 == IF r = NULL THEN c
              ELSE IF /\ c.conversaciones[r].tipo = "lista"
                      /\ \E i \in 1..Len(c.conversaciones[r].mensajes) :
                            c.conversaciones[r].mensajes[i].rol = "user"
              THEN [c EXCEPT !.conversacionActual = r]
              ELSE c
    IN  IF c1.conversacionActual # NULL
        THEN chat' = [c1 EXCEPT !.abr = AbrReposo]
        ELSE /\ c1.creadas < MaxConversaciones
             /\ chat' = [crearNuevaConversacion(c1) EXCEPT
                             !.abr = [AbrReposo EXCEPT
                                          !.pc = "creando",
                                          !.nueva = IdsNuevos[c1.creadas + 1]]]

\* cargarHistorialConversaciones lines 416-434, after the await of the list: the
\* conversations are deleted, those of the list are stored as objects and their
\* details are requested
AbrTrasLista ==
    /\ chat.abr.pc = "lista"
    /\ LET data == {id \in IdsChat : chat.servidor[id].existe}
           enUso == chat.conversacionActual
           restaurar == IF enUso = NULL THEN NULL
                        ELSE IF chat.conversaciones[enUso].tipo = "ausente" THEN NULL
                        ELSE enUso
           c == [chat EXCEPT
                     !.conversaciones =
                         [id \in IdsChat |->
                             IF id \in data
                             THEN [tipo |-> "objeto", mensajes |-> <<>>,
                                   nombre |-> IF Truthy(Trim(chat.servidor[id].nombre))
                                              THEN Trim(chat.servidor[id].nombre)
                                              ELSE NULL]
                             ELSE [tipo |-> "ausente", mensajes |-> <<>>, nombre |-> NULL]],
                     !.abr = [pc |-> "detalles", restaurar |-> restaurar,
                              pendientes |-> data, nueva |-> NULL]]
       IN  IF data = {} THEN abrTrasHistorial(c) ELSE chat' = c
    /\ UNCHANGED <<otra, kb, temas, req, pc, llamador, fuzzy, analisis, respuestas, simple, res,
                   feedback, lecturas, emitidos>>

\* cargarHistorialConversaciones lines 436-455: the detail of one conversation
\* arrives and replaces the object stored for it, with the name of the document
\* unless /^chat\s|^chat\s+sin/i matches it; after the last one the function goes on
AbrDetalle ==
    /\ chat.abr.pc = "detalles"
    /\ \E id \in chat.abr.pendientes :
          LET doc == chat.servidor[id]
              conNombre ==
                  /\ Truthy(doc.nombre)
                  /\ ~(/\ Len(Trim(doc.nombre)) >= 5
                       /\ SubSeq(ToLower(Trim(doc.nombre)), 1, 5) = "chat ")
              c == [chat EXCEPT
                        !.conversaciones[id] =
                            Lista(mensajesLocales(doc.mensajes),
                                  IF conNombre THEN Trim(doc.nombre) ELSE NULL),
                        !.abr.pendientes = @ \ {id}]
          IN  IF c.abr.pendientes = {} THEN abrTrasHistorial(c) ELSE chat' = c
    /\ UNCHANGED <<otra, kb, temas, req, pc, llamador, fuzzy, analisis, respuestas, simple, res,
                   feedback, lecturas, emitidos>>

\* abrirChat lines 53-59, after the await of crearNuevaConversacion
AbrTrasCrear ==
    /\ chat.abr.pc = "creando"
    /\ chat' = [chat EXCEPT !.conversacionActual = chat.abr.nueva, !.abr = AbrReposo]
    /\ UNCHANGED <<otra, kb, temas, req, pc, llamador, fuzzy, analisis, respuestas, simple, res,
                   feedback, lecturas, emitidos>>

NextChat ==
    \/ EnvInicio
    \/ EnvTrasCrear
    \/ EnvTrasNombre
    \/ EnvTrasRespuesta
    \/ CamInicio
    \/ CamTrasCrear
    \/ CamTrasLeer
    \/ AbrInicio
    \/ AbrTrasLista
    \/ AbrDetalle
    \/ AbrTrasCrear

SpecChat == InitChat /\ [][NextChat]_vars

\* ------------------------------------------------------------ properties

analizado == analisis # SinAnalisis

todasLasLecturasOk == \A i \in 1..Len(lecturas) : lecturas[i].ok

ultimaLectura(op) ==
    lecturas # <<>> /\ lecturas[Len(lecturas)] = [op |-> op, ok |-> TRUE]

huboLectura(op) == \E i \in 1..Len(lecturas) : lecturas[i].op = op

RespuestaFueraDeDominio ==
    <<[respuesta |-> MensajeFueraDeDominio, origen |-> "feedback_guardado"]>>

RespuestaSinRespuesta ==
    <<[respuesta |-> MensajeSinRespuesta, origen |-> "feedback_guardado"]>>

\* C1 (as claimed, for the non-empty strings): a request whose text is a non-empty
\* string and whose store reads all succeed ends with a response that carries at
\* least one answer, never with an error.
C1_SiempreAlMenosUnaRespuesta ==
    (pc = "fin" /\ req.tipo = "string" /\ req.pregunta # "" /\ todasLasLecturasOk)
        => (res.status = 200 /\ Len(res.respuestas) >= 1)

\* the first filter of the cascade with a non-empty result, else the empty pool
RECURSIVE primeraNoVacia(_, _, _)
primeraNoVacia(coleccion, fs, a) ==
    IF fs = <<>> THEN <<>>
    ELSE IF find(coleccion, Head(fs), a) # <<>> THEN find(coleccion, Head(fs), a)
    ELSE primeraNoVacia(coleccion, Tail(fs), a)

\* C2 (as claimed): once the filtered read of buscarConsultaAvanzada has returned,
\* the candidate pool is the result of the first filter of the cascade (topic &
\* subtopic & intent), (topic & subtopic), (subtopic & intent), (subtopic),
\* (topic & intent), (topic) that is specifiable and non-empty, and it is empty
\* when there is none.
C2_PoolEsPrimerFiltroNoVacio ==
    ultimaLectura("principal") => respuestas = primeraNoVacia(kb, filtros(analisis), analisis)

\* C3: an analysis that reports fueraDeDominio makes buscarConsultaAvanzada emit
\* one feedback event and return the out-of-domain message alone, with no read of
\* the store other than those of the analysis.
C3_FueraDeDominioCortaElFlujo ==
    (llamador = "avanzada" /\ analizado /\ analisis.fueraDeDominio)
        => /\ \A i \in 1..Len(lecturas) :
                  lecturas[i].op \in {"analizar.respuestas", "analizar.temas"}
           /\ pc \in {"adv_feedback_fuera", "fin"}
           /\ pc = "adv_feedback_fuera" => emitidos = <<>>
           /\ pc = "fin" => /\ Len(emitidos) = 1
                            /\ res = respuestaOk(RespuestaFueraDeDominio, "avanzada")

C3_Witness ==
    /\ pc = "fin"
    /\ llamador = "avanzada"
    /\ analisis.fueraDeDominio
    /\ Len(emitidos) = 1
    /\ kb # <<>>

\* C4 (as claimed): with no knowledge records in the store, every analysis reports
\* fueraDeDominio.
C4_BaseVaciaSiempreFueraDeDominio ==
    (kb = <<>> /\ analizado) => analisis.fueraDeDominio

\* C4 (amended): with no knowledge records in the store, every analysis has score 0
\* and no subtopic, and reports fueraDeDominio exactly when no topic was resolved;
\* buscarConsultaAvanzada then emits one feedback event and returns one fixed
\* message: the out-of-domain one when fueraDeDominio, else the no-clear-answer one.
C4_BaseVacia ==
    (kb = <<>> /\ analizado)
        => /\ analisis.score = Zero
           /\ analisis.subtema = NULL
           /\ analisis.fueraDeDominio <=> (analisis.tema = NULL)
           /\ (pc = "fin" /\ llamador = "avanzada" /\ todasLasLecturasOk)
                 => /\ Len(emitidos) = 1
                    /\ res = respuestaOk(IF analisis.fueraDeDominio
                                         THEN RespuestaFueraDeDominio
                                         ELSE RespuestaSinRespuesta, "avanzada")

C4_Witness ==
    /\ kb = <<>>
    /\ pc = "fin"
    /\ llamador = "avanzada"
    /\ analisis.tema # NULL
    /\ res.respuestas = RespuestaSinRespuesta

\* whether one of the words occurs, ignoring case, in a searched field of a record
contienePalabra(r, palabras) ==
    \E k \in 1..Len(palabras) :
        \/ Includes(ToLower(r.pregunta_clave), palabras[k])
        \/ Includes(ToLower(r.respuesta), palabras[k])
        \/ Includes(ToLower(r.descripcion), palabras[k])
        \/ Includes(ToLower(r.ejemplo), palabras[k])
        \/ \E j \in 1..Len(r.palabras_clave) :
               Includes(ToLower(r.palabras_clave[j]), palabras[k])

\* C5 (as claimed): once the regex recall read has returned, the pool is exactly
\* the records in which one of the first five normalized query tokens longer than
\* two characters occurs; a record with none of them is not in the pool.
C5_RecallSoloConPalabra ==
    ultimaLectura("regex")
        => respuestas = SelectSeq(kb, LAMBDA r :
                            contienePalabra(r, palabrasRegex(analisis.textoNormalizado)))

\* C6: buscarConsultaAvanzada reads for the simple match only after the filtered
\* pool and the regex recall pool came back empty; an answer of the simple match,
\* tagged consulta_simple, is then the whole result and no feedback is emitted.
C6_SimpleSoloTrasPoolsVacios ==
    (llamador = "avanzada" /\ (huboLectura("simple") \/ pc = "adv_simple"))
        => /\ Len(lecturas) >= 4
           /\ SubSeq(lecturas, 1, 4) =
                  <<[op |-> "analizar.respuestas", ok |-> TRUE],
                    [op |-> "analizar.temas", ok |-> TRUE],
                    [op |-> "principal", ok |-> TRUE],
                    [op |-> "regex", ok |-> TRUE]>>
           /\ find(kb, filtroPrincipal(analisis), analisis) = <<>>
           /\ findRegex(kb, analisis.textoNormalizado) = <<>>
           /\ (pc = "fin" /\ Truthy(simple))
                 => /\ res = respuestaOk(<<[respuesta |-> simple,
                                            fuente |-> "consulta_simple"]>>, "avanzada")
                    /\ emitidos = <<>>

C6_Witness ==
    /\ pc = "fin"
    /\ llamador = "avanzada"
    /\ Truthy(simple)
    /\ res.respuestas = <<[respuesta |-> simple, fuente |-> "consulta_simple"]>>

\* C7: when the filtered pool, the regex recall pool and the simple match all come
\* back with nothing, buscarConsultaAvanzada emits one feedback event and returns
\* the no-clear-answer message alone.
C7_SinNadaFeedbackYMensaje ==
    (llamador = "avanzada" /\ ultimaLectura("simple") /\ ~Truthy(simple))
        => /\ respuestas = <<>>
           /\ pc \in {"adv_feedback_sin", "fin"}
           /\ pc = "adv_feedback_sin" => emitidos = <<>>
           /\ pc = "fin" => /\ Len(emitidos) = 1
                            /\ emitidos[1].pregunta = req.pregunta
                            /\ res = respuestaOk(RespuestaSinRespuesta, "avanzada")

C7_Witness ==
    /\ pc = "fin"
    /\ llamador = "avanzada"
    /\ ultimaLectura("simple")
    /\ ~Truthy(simple)
    /\ kb # <<>>
    /\ Len(emitidos) = 1

\* the request ended with the ranking of a non-empty pool
conRanking ==
    /\ pc = "fin"
    /\ (ultimaLectura("principal") \/ ultimaLectura("regex"))
    /\ respuestas # <<>>

\* C8: with a non-empty pool the result has min(3, |pool|) answers, each a record
\* of the pool (each taken once) with its composite score attached, in order of
\* non-increasing score, and no record left out scores above a returned one.
C8_TopTresOrdenado ==
    conRanking
        => LET texto == analisis.textoNormalizado
               out == res.respuestas
               n == Len(respuestas)
           IN  /\ res.status = 200
               /\ Len(out) = (IF n < 3 THEN n ELSE 3)
               /\ \E f \in [1..Len(out) -> 1..n] :
                     /\ \A i, j \in 1..Len(out) : i # j => f[i] # f[j]
                     /\ \A i \in 1..Len(out) :
                           out[i] = [score |-> scoreCompuestoAvanzada(texto, respuestas[f[i]])]
                                       @@ respuestas[f[i]]
                     /\ \A k \in (1..n) \ {f[i] : i \in 1..Len(out)} :
                           \A i \in 1..Len(out) :
                               RLeq(scoreCompuestoAvanzada(texto, respuestas[k]),
                                    out[i].score)
               /\ \A i \in 1..(Len(out) - 1) : RLeq(out[i + 1].score, out[i].score)

C8_Witness ==
    /\ conRanking
    /\ Len(respuestas) > 3
    /\ Len(res.respuestas) = 3
    /\ res.respuestas[1].score # res.respuestas[3].score
    /\ res.respuestas[1] # [score |-> res.respuestas[1].score] @@ respuestas[1]

\* C9: whether the feedback write succeeds or fails, the request ends with the
\* same successful response, fixed by the path alone, and no error reaches the
\* caller; only the stored feedback differs.
C9_FalloDeFeedbackNoCambiaRespuesta ==
    (pc = "fin" /\ emitidos # <<>>)
        => /\ Len(emitidos) = 1
           /\ res = (IF llamador = "controlador"
                     THEN respuestaOk(<<[respuesta |-> MensajeFallback]>>, "fallback")
                     ELSE IF analisis.fueraDeDominio
                     THEN respuestaOk(RespuestaFueraDeDominio, "avanzada")
                     ELSE respuestaOk(RespuestaSinRespuesta, "avanzada"))
           /\ Len(feedback) = (IF emitidos[1].ok THEN 1 ELSE 0)

C9_Witness ==
    /\ pc = "fin"
    /\ emitidos # <<>>
    /\ ~emitidos[1].ok
    /\ res.status = 200

\* C10: a failed read of the store, in the analysis or in a search, ends the
\* request with the failure response; no fallback answer is sent and no feedback
\* event is emitted.
C10_FalloDeLecturaEsError ==
    (~todasLasLecturasOk)
        => /\ pc = "fin"
           /\ res = ErrorProceso
           /\ emitidos = <<>>
           /\ feedback = <<>>

C10_Witness ==
    /\ llamador = "avanzada"
    /\ lecturas # <<>>
    /\ lecturas[Len(lecturas)] = [op |-> "simple", ok |-> FALSE]
    /\ res = ErrorProceso

\* C11: a request whose text is not a string, or is the empty string, is answered
\* with the input error by procesarConsulta at once: no read of the store and no
\* feedback write is made for it.
C11_InvalidaRechazadaSinLecturas ==
    (pc # "inicio" /\ (req.tipo # "string" \/ req.pregunta = ""))
        => /\ pc = "fin"
           /\ res = ErrorInvalida
           /\ lecturas = <<>>
           /\ emitidos = <<>>
           /\ feedback = <<>>
           /\ ~analizado

C11_Witness ==
    /\ pc = "fin"
    /\ req.tipo = "string"
    /\ req.pregunta = ""
    /\ kb # <<>>
    /\ res = ErrorInvalida

\* C12: in every analysis, fueraDeDominio is true exactly when (no topic and no
\* subtopic and score < 0.15) or (the subtopic, in lower case, is one of the
\* generic labels and score < 0.15).
C12_FueraDeDominioExacto ==
    analizado
        => (analisis.fueraDeDominio <=>
               \/ /\ analisis.tema = NULL
                  /\ analisis.subtema = NULL
                  /\  analisis.score[1] * 100 < 15 * analisis.score[2]
               \/ /\ \E g \in {"agradecimientos", "saludos", "respuesta_positiva"} :
                         ToLower(analisis.subtema) = g
                  /\ analisis.score[1] * 100 < 15 * analisis.score[2])

\* the generic disjunct alone decides: a subtopic is resolved
C12_Witness ==
    /\ analizado
    /\ analisis.fueraDeDominio
    /\ analisis.subtema = "saludos"

\* C13: in every analysis, esConsultaAmbigua is true exactly when no topic was
\* resolved, or score < 0.3 and no subtopic was resolved, on the topic, subtopic
\* and score the analysis returns.
C13_AmbiguaExacto ==
    analizado
        => (analisis.esConsultaAmbigua <=>
               \/ analisis.tema = NULL
               \/ /\ analisis.score[1] * 100 < 30 * analisis.score[2]
                  /\ analisis.subtema = NULL)

\* the score disjunct alone decides: a topic is resolved
C13_Witness ==
    /\ analizado
    /\ analisis.tema # NULL
    /\ analisis.subtema = NULL
    /\ analisis.esConsultaAmbigua

\* C14 (as claimed): for the normalized text of an analysed query and every scored
\* field of every record, the per-field score of the analyzer and that of the
\* orchestrator are in [0,1] and are 1 whenever the query's token set is a subset
\* of the field's token set; the weighted composites are in [0,1].
C14_ScoreUnoSiSubconjunto ==
    analizado
        => \A i \in 1..Len(kb) :
              LET a == analisis.textoNormalizado
                  campos == <<kb[i].pregunta_clave, kb[i].descripcion,
                              kb[i].respuesta, kb[i].ejemplo>>
                  enRango(s) == 0 <= s[1] /\ s[1] <= s[2]
                  subconjunto(b) == Range(Split(a)) \subseteq Range(Split(b))
              IN  /\ enRango(scoreCompuestoNLP(a, kb[i]))
                  /\ enRango(scoreCompuestoAvanzada(a, kb[i]))
                  /\ \A k \in 1..4 :
                        LET b == limpiarTexto(campos[k])
                        IN  /\ enRango(calcularScoreNLP(a, b))
                            /\ enRango(calcularScoreAvanzada(a, b))
                            /\ subconjunto(b) => /\ calcularScoreNLP(a, b) = Rat(1, 1)
                                                 /\ calcularScoreAvanzada(a, b) = Rat(1, 1)

\* C15 (as claimed): the analysis of a whitespace-only text has score 0 and no
\* topic and is ambiguous, whatever the store holds.
C15_EntradaVaciaScoreCero ==
    (analizado /\ Trim(req.pregunta) = "")
        => /\ analisis.score = Zero
           /\ analisis.tema = NULL
           /\ analisis.esConsultaAmbigua

\* analizarPregunta has just returned to its caller, which has not gone on yet;
\* the analysis is not changed afterwards
analisisDevuelto ==
    /\ analizado
    /\ ultimaLectura("analizar.temas")
    /\ emitidos = <<>>

\* the locals of analizarPregunta when its heuristic stage is reached
antesDeHeuristica ==
    etapaFuzzy(etapaFuerte(etapaSimilitud(analisis.textoNormalizado, kb), kb), kb, fuzzy)

\* the subtopic of the analysis was set by the heuristic stage
subtemaHeuristico ==
    /\ analisisDevuelto
    /\ analisis.subtema # NULL
    /\ antesDeHeuristica.subtema # analisis.subtema

scoreDe(i) == scoreCompuestoNLP(analisis.textoNormalizado, kb[i])

\* C17: the best candidate of the scoring loop of analizarPregunta has the
\* greatest composite score of the store and is the first record, in the order of
\* the store, to have it; there is none exactly when every record scores 0; a
\* strong match takes its subtopic and topic from that record.
C17_EmpateGanaElPrimero ==
    analisisDevuelto
        => LET m == etapaSimilitud(analisis.textoNormalizado, kb)
               c == m.mejorCoincidencia
           IN  IF c = 0
               THEN /\ m.mejorScore = Zero
                    /\ \A j \in 1..Len(kb) : scoreDe(j) = Zero
               ELSE /\ c \in 1..Len(kb)
                    /\ m.mejorScore = scoreDe(c)
                    /\ m.mejorScore # Zero
                    /\ \A j \in 1..Len(kb) : RLeq(scoreDe(j), m.mejorScore)
                    /\ \A j \in 1..(c - 1) : scoreDe(j) # m.mejorScore
                    /\ (m.mejorScore[1] * 100 >= 45 * m.mejorScore[2])
                          => /\ analisis.subtema = kb[c].subtema
                             /\ analisis.tema = kb[c].tema
                             /\ analisis.score = m.mejorScore

\* a later record ties with the retained one on the greatest score
C17_Witness ==
    /\ analisisDevuelto
    /\ \E i, j \in 1..Len(kb) :
          /\ i < j
          /\ scoreDe(i) # Zero
          /\ scoreDe(i) = scoreDe(j)
          /\ \A k \in 1..Len(kb) : RLeq(scoreDe(k), scoreDe(i))
    /\ pc \in {"adv_feedback_fuera", "adv_principal", "ctl_feedback"}

\* C19 (as claimed): when the analysis has a subtopic and a record carries it, the
\* topic of the analysis is the topic of a record that carries that subtopic.
C19_TemaForzadoPorSubtema ==
    (/\ analizado
     /\ analisis.subtema # NULL
     /\ \E i \in 1..Len(kb) : kb[i].subtema = analisis.subtema)
        => \E i \in 1..Len(kb) :
              /\ limpiarTexto(kb[i].subtema) = limpiarTexto(analisis.subtema)
              /\ kb[i].tema = analisis.tema

\* the synonyms of the k-th subtopic of PalabrasPorSubtema among the query's tokens
coincidenciasDelSubtema(k) ==
    Cardinality({j \in 1..Len(PalabrasPorSubtema[k].sinonimos) :
                    limpiarTexto(PalabrasPorSubtema[k].sinonimos[j])
                        \in Range(tokensDe(analisis.textoNormalizado))})

\* C20 (as claimed): a subtopic adopted by the heuristic stage either has two or
\* more matching synonyms, or has exactly one and no other subtopic has any.
C20_HeuristicaUnicoOFuerte ==
    subtemaHeuristico
        => \E k \in 1..Len(PalabrasPorSubtema) :
              /\ PalabrasPorSubtema[k].subtema = analisis.subtema
              /\ \/ coincidenciasDelSubtema(k) >= 2
                 \/ /\ coincidenciasDelSubtema(k) = 1
                    /\ \A o \in 1..Len(PalabrasPorSubtema) :
                          o # k => coincidenciasDelSubtema(o) = 0

\* the response a request gets when it runs alone over the store and every read
\* comes back, fz being what fuzzysort returned to its analysis
resultadoSolo(r, fz) ==
    IF r.tipo # "string" \/ r.pregunta = "" THEN ErrorInvalida
    ELSE LET a == analizarPregunta(r.pregunta, kb, temas, fz)
             s == buscarConsultaSimple(r.pregunta, kb)
             p1 == find(kb, filtroPrincipal(a), a)
             p2 == findRegex(kb, a.textoNormalizado)
         IN  IF ~esConsultaAvanzada(r.pregunta)
             THEN IF Truthy(s) THEN respuestaOk(<<[respuesta |-> s]>>, "simple")
                  ELSE respuestaOk(<<[respuesta |-> MensajeFallback]>>, "fallback")
             ELSE IF a.fueraDeDominio THEN respuestaOk(RespuestaFueraDeDominio, "avanzada")
             ELSE IF construyeFiltrosFalla(a) THEN ErrorProceso
             ELSE IF p1 # <<>> THEN respuestaOk(ranking(a.textoNormalizado, p1), "avanzada")
             ELSE IF p2 # <<>> THEN respuestaOk(ranking(a.textoNormalizado, p2), "avanzada")
             ELSE IF Truthy(s)
             THEN respuestaOk(<<[respuesta |-> s, fuente |-> "consulta_simple"]>>, "avanzada")
             ELSE respuestaOk(RespuestaSinRespuesta, "avanzada")

\* a request has the analysis and, once ended, the response of its run alone
comoSolo(q) ==
    /\ q.analisis \in {SinAnalisis,
                       analizarPregunta(q.req.pregunta, kb, temas, q.fuzzy)}
    /\ q.pc = "fin"
          => q.res = IF \A i \in 1..Len(q.lecturas) : q.lecturas[i].ok
                     THEN resultadoSolo(q.req, q.fuzzy)
                     ELSE ErrorProceso

\* the feedback documents a request has stored
documentosDe(q) ==
    {documentoFeedback(q.emitidos[i].sessionId, q.req.pregunta, q.analisis) :
        i \in {j \in 1..Len(q.emitidos) : q.emitidos[j].ok}}

\* C18: of two requests interleaved at their awaits, each has the analysis and the
\* response of its run alone over the same store, and what the two have written
\* is their own feedback events: one stored document for each successful write.
C18_ConsultasIndependientes ==
    otra # SinOtra
        => /\ comoSolo(actual)
           /\ comoSolo(otra)
           /\ \A i \in 1..Len(feedback) :
                 feedback[i] \in documentosDe(actual) \cup documentosDe(otra)
           /\ Len(feedback) =
                 Cardinality({j \in 1..Len(emitidos) : emitidos[j].ok})
                 + Cardinality({j \in 1..Len(otra.emitidos) : otra.emitidos[j].ok})

\* both requests are under way, each suspended or running between its analysis
\* and its end, with different analyses
C18_Witness ==
    /\ otra # SinOtra
    /\ pc \in {"adv_principal", "adv_regex", "adv_simple", "adv_feedback_sin"}
    /\ otra.pc \in {"adv_principal", "adv_feedback_fuera", "ctl_feedback"}
    /\ req.pregunta # otra.req.pregunta
    /\ analisis # SinAnalisis
    /\ otra.analisis # SinAnalisis
    /\ analisis # otra.analisis

\* C21: a fuzzy match is accepted only when no record reaches the composite score
\* 0.45, and the analysis then has the subtopic and the topic of the matched
\* record and the score 0.42.
C21_FuzzySoloSinFuerteYFija042 ==
    (analisisDevuelto /\ fuzzy # 0)
        => /\ \A i \in 1..Len(kb) : scoreDe(i)[1] * 100 < 45 * scoreDe(i)[2]
           /\ analisis.subtema = kb[fuzzy].subtema
           /\ analisis.tema = kb[fuzzy].tema
           /\ analisis.score = Rat(42, 100)

\* a fuzzy match accepted for a text that also has a positive composite score
C21_Witness ==
    /\ analisisDevuelto
    /\ fuzzy # 0
    /\ \E i \in 1..Len(kb) : scoreDe(i) # Zero
    /\ analisis.score = Rat(42, 100)

\* the locals of analizarPregunta after its heuristic stage
trasHeuristica ==
    etapaHeuristica(antesDeHeuristica, tokensDe(analisis.textoNormalizado), kb)

\* C22: the heuristic stage changes the locals of analizarPregunta only if the
\* subtopic is unresolved or the score is below 0.3, and then only the subtopic:
\* topic, score and best candidate leave the stage as they entered it, and the
\* subtopic and the score of the analysis are those after the stage.
C22_HeuristicaSoloCambiaSubtema ==
    analisisDevuelto
        => LET antes == antesDeHeuristica
               tras == etapaHeuristica(antes, tokensDe(analisis.textoNormalizado), kb)
           IN  /\ tras.tema = antes.tema
               /\ tras.mejorScore = antes.mejorScore
               /\ tras.mejorCoincidencia = antes.mejorCoincidencia
               /\ tras.subtema # antes.subtema
                     => \/ antes.subtema = NULL
                        \/ antes.mejorScore[1] * 100 < 30 * antes.mejorScore[2]
               /\ analisis.subtema = tras.subtema
               /\ analisis.score = tras.mejorScore

\* the heuristic adopts a subtopic while a record has a positive score, and the
\* topic comes from a later stage
C22_Witness ==
    /\ subtemaHeuristico
    /\ antesDeHeuristica.mejorCoincidencia # 0
    /\ antesDeHeuristica.tema = NULL
    /\ analisis.tema # NULL

\* C24: the reasoning label of an analysis is the strong-match one exactly when
\* the score is at least 0.45; below that it is the subtopic one when a subtopic
\* is resolved, else the keyword one when a topic is resolved, else the no-match
\* one.
C24_RazonamientoPorPrioridad ==
    analizado
        => analisis.razonamiento =
              (IF analisis.score[1] * 100 >= 45 * analisis.score[2]
               THEN "Detectado por similitud textual fuerte"
               ELSE IF analisis.subtema # NULL THEN "Subtema heurístico o fuzzy"
               ELSE IF analisis.tema # NULL THEN "Tema por keyword"
               ELSE "Sin coincidencia clara")

\* subtopic and topic are both resolved below the strong score
C24_Witness ==
    /\ analizado
    /\ analisis.razonamiento = "Subtema heurístico o fuzzy"
    /\ analisis.tema # NULL

\* C27: when the heuristic stage is reached, a resolved subtopic comes with a
\* score of at least 0.42, and the stage leaves that subtopic as it is.
C27_SubtemaResueltoNoSeReemplaza ==
    (analisisDevuelto /\ antesDeHeuristica.subtema # NULL)
        => /\ antesDeHeuristica.mejorScore[1] * 100 >= 42 * antesDeHeuristica.mejorScore[2]
           /\ analisis.subtema = antesDeHeuristica.subtema

\* a subtopic of a strong or fuzzy match while the query has a synonym of a
\* subtopic that a record carries
C27_Witness ==
    /\ analisisDevuelto
    /\ antesDeHeuristica.subtema # NULL
    /\ mejoresCoincidencias(tokensDe(analisis.textoNormalizado)) # <<>>
    /\ subtemaExiste(kb, mejoresCoincidencias(tokensDe(analisis.textoNormalizado))[1].subtema)

\* the answer lists made of one fixed fallback message
RespuestasDeFallback ==
    {RespuestaFueraDeDominio, RespuestaSinRespuesta, <<[respuesta |-> MensajeFallback]>>}

C26_FeedbackConSesionDeLaPeticion ==
    \A i \in 1..Len(emitidos) :
        emitidos[i].sessionId = (IF req.sessionId # NULL THEN req.sessionId
                                 ELSE SesionDesconocida)

\* the request is a question: it is a string that esConsultaAvanzada accepts
esPregunta == req.tipo = "string" /\ req.pregunta # "" /\ esConsultaAvanzada(req.pregunta)

\* C28 (as claimed): a question always ends with a response of origin avanzada.
C28_PreguntaSiempreAvanzada ==
    (pc = "fin" /\ esPregunta) => res.origen = "avanzada"

\* C28 (amended): a question never reaches the simple match or the feedback of
\* the controller, and it ends either with a response of origin avanzada that has
\* at least one answer or with the failure response.
C28_PreguntaAvanzadaOError ==
    (pc # "inicio" /\ esPregunta)
        => /\ llamador = "avanzada"
           /\ pc \notin {"ctl_simple", "ctl_feedback"}
           /\ pc = "fin" => \/ /\ res.status = 200
                               /\ res.origen = "avanzada"
                               /\ res.respuestas # <<>>
                            \/ res = ErrorProceso

\* a question for which nothing was found ends with origin avanzada
C28_Witness ==
    /\ pc = "fin"
    /\ esPregunta
    /\ res.origen = "avanzada"
    /\ res.respuestas = RespuestaSinRespuesta
    /\ kb # <<>>
    /\ temas # <<>>


\* C29 (as claimed): the final score is never below the maximum composite score
\* of the scoring stage; a fuzzy match is accepted only over a maximum of at
\* most 0.42.
C29_FuzzyNuncaBajaElScore ==
    analisisDevuelto
        => \A i \in 1..Len(kb) :
              scoreDe(i)[1] * analisis.score[2] <= analisis.score[1] * scoreDe(i)[2]

\* C29 (amended): a fuzzy match is accepted only over a maximum composite score
\* below 0.45, so the score 0.42 it sets is less than 0.03 below that maximum;
\* without an accepted fuzzy match the final score is the maximum composite score.
C29_FuzzyBajaMenosDe003 ==
    analisisDevuelto
        => /\ \A i \in 1..Len(kb) :
                 IF fuzzy # 0
                 THEN /\ scoreDe(i)[1] * 100 < 45 * scoreDe(i)[2]
                      /\ analisis.score[1] * 100 = 42 * analisis.score[2]
                 ELSE scoreDe(i)[1] * analisis.score[2] <= analisis.score[1] * scoreDe(i)[2]
           /\ fuzzy = 0 /\ kb # <<>> => \E i \in 1..Len(kb) : scoreDe(i) = analisis.score

\* a fuzzy match accepted over a maximum composite score between 0.42 and 0.45
C29_Witness ==
    /\ analisisDevuelto
    /\ fuzzy # 0
    /\ analisis.score = Rat(42, 100)
    /\ \E i \in 1..Len(kb) : /\ 42 * scoreDe(i)[2] < scoreDe(i)[1] * 100
                            /\ scoreDe(i)[1] * 100 < 45 * scoreDe(i)[2]


\* the keys of PalabrasClave with a keyword in the normalized text
clavesConAcierto ==
    {i \in 1..Len(PalabrasClave) :
        \E k \in 1..Len(PalabrasClave[i].lista) :
            Includes(analisis.textoNormalizado, limpiarTexto(PalabrasClave[i].lista[k]))}

\* the topics stored under the i-th key of PalabrasClave
temasDeClave(i) ==
    {j \in 1..Len(temas) : limpiarTexto(temas[j].clave) = limpiarTexto(PalabrasClave[i].clave)}

primera(S) == CHOOSE i \in S : \A j \in S : i <= j

\* C23 (as claimed): the lookup runs only while the topic is unresolved, and the
\* first key with a keyword in the text decides alone: the topic after the lookup
\* is a topic of that key or stays unresolved, never the topic of a later key.
C23_PrimeraClaveConAciertoDecide ==
    analisisDevuelto
        => LET antes == trasHeuristica
               tras == etapaTemaPorPalabras(antes, analisis.textoNormalizado, temas)
               aciertos == clavesConAcierto
           IN  /\ Truthy(antes.tema) => tras = antes
               /\ (~Truthy(antes.tema) /\ aciertos # {})
                     => \/ tras.tema = NULL
                        \/ \E j \in temasDeClave(primera(aciertos)) :
                              tras.tema = temas[j].id

\* the keys with a keyword in the text for which a topic is stored
clavesConTema == {i \in clavesConAcierto : temasDeClave(i) # {}}

\* C23 (amended): the lookup runs only while the topic is unresolved, and the
\* first key that has a keyword in the text and a stored topic decides: keys with
\* a keyword in the text but no stored topic are passed over, the topic stays
\* unresolved only if there is no such key, and the topic found is the topic of
\* the analysis.
C23_PrimeraClaveConAciertoYTemaDecide ==
    analisisDevuelto
        => LET antes == trasHeuristica
               tras == etapaTemaPorPalabras(antes, analisis.textoNormalizado, temas)
               conTema == clavesConTema
           IN  /\ Truthy(antes.tema) => tras = antes
               /\ ~Truthy(antes.tema)
                     => /\ tras = [antes EXCEPT !.tema = tras.tema]
                        /\ IF conTema = {} THEN tras.tema = NULL
                           ELSE /\ tras.tema =
                                      temas[primera(temasDeClave(primera(conTema)))].id
                                /\ analisis.tema = tras.tema

\* the first key with a keyword in the text has no stored topic and a later key
\* gives the topic of the analysis
C23_Witness ==
    /\ analisisDevuelto
    /\ ~Truthy(trasHeuristica.tema)
    /\ clavesConTema # {}
    /\ primera(clavesConAcierto) < primera(clavesConTema)
    /\ analisis.tema = temas[primera(temasDeClave(primera(clavesConTema)))].id


\* C30 (as claimed): enviarMensaje appends and saves the reply of the bot under
\* the conversation id under which it appended and saved the user's message,
\* whatever ran while the reply was awaited.
C30_RespuestaEnLaMismaConversacion ==
    /\ chat.env.botEn # NULL => chat.env.botEn = chat.env.usuarioEn
    /\ chat.env.botGuardadoEn # NULL => chat.env.botGuardadoEn = chat.env.usuarioGuardadoEn

====
